---- MODULE Spec2Model ----
(***************************************************************************)
(* Lifecycle of the func-go Service (http binding, service.go with the     *)
(* listener field, and kafka binding, kafka/service.go): config build,     *)
(* Start hook goroutine, signal goroutine, serve/consume goroutine, the    *)
(* select on the unbuffered stop channel, shutdown and collapseErrors.     *)
(***************************************************************************)
EXTENDS Integers, Sequences, FiniteSets, TLC

\* ------------------------------------------------------------------ bounds
\* number of OS signals delivered to the process in one run
MaxSignals == 2

\* ------------------------------------------------------------- constants
\* capacity of the channel made in handleSignals: make(chan os.Signal, 2)
SigsCap == 2

Nil == "nil"

Bindings == {"http", "kafka"}

Roles == {"Starter", "Stopper"}

Signals == {"SIGINT", "SIGTERM", "SIGURG"}

\* ------------------------------------------------------------ strings
\* A Go string is a sequence of one-character strings.
SP == " "
QT == "\""
EQ == "="

RECURSIVE IndexEq(_, _)
\* strings.Index(s, "=") counted from position i; 0 when absent
IndexEq(s, i) ==
    IF i > Len(s) THEN 0
    ELSE IF s[i] = EQ THEN i
    ELSE IndexEq(s, i + 1)

\* strings.SplitN(s, "=", 2)
SplitN2(s) ==
    LET i == IndexEq(s, 1)
    IN  IF i = 0 THEN <<s>>
        ELSE << SubSeq(s, 1, i - 1), SubSeq(s, i + 1, Len(s)) >>

RECURSIVE TrimLeft(_, _)
TrimLeft(s, c) ==
    IF s # <<>> /\ Head(s) = c THEN TrimLeft(Tail(s), c) ELSE s

RECURSIVE TrimRight(_, _)
TrimRight(s, c) ==
    IF s # <<>> /\ s[Len(s)] = c THEN TrimRight(SubSeq(s, 1, Len(s) - 1), c) ELSE s

\* strings.Trim(s, cutset) for a one-character cutset
Trim(s, c) == TrimRight(TrimLeft(s, c), c)

\* strings.TrimSpace(s)
TrimSpace(s) == Trim(s, SP)

\* m[k] = v on a Go map
MapPut(m, k, v) == [x \in DOMAIN m \cup {k} |-> IF x = k THEN v ELSE m[x]]

EmptyMap == [x \in {} |-> <<>>]

\* ------------------------------------------------------------- config
\* marker for a missing ./cfg: no file holds a line made of this one symbol
NoFile == << << "nofile" >> >>

RECURSIVE readLines(_, _)
\* the scanner loop of readCfg over the remaining lines
readLines(lines, cfg) ==
    IF lines = <<>> THEN [cfg |-> cfg, err |-> Nil]
    ELSE LET parts == SplitN2(Head(lines))
         IN  IF Len(parts) # 2
             THEN [cfg |-> cfg, err |-> "ErrConfig"]
             ELSE readLines(Tail(lines),
                      MapPut(cfg, TrimSpace(parts[1]), Trim(TrimSpace(parts[2]), QT)))

\* readCfg: map of ./cfg ; empty map when the file does not exist
readCfg(file) ==
    IF file = NoFile THEN [cfg |-> EmptyMap, err |-> Nil]
    ELSE readLines(file, EmptyMap)

RECURSIVE Environ(_)
\* os.Environ(): one "K=V" string per variable of the environment
Environ(env) ==
    IF DOMAIN env = {} THEN <<>>
    ELSE LET k == CHOOSE x \in DOMAIN env : TRUE
         IN  << k \o <<EQ>> \o env[k] >>
             \o Environ([x \in DOMAIN env \ {k} |-> env[x]])

RECURSIVE overlayEnvKeep(_, _)
\* variant: a key already set by the static file is not overwritten
overlayEnvKeep(envs, cfg) ==
    IF envs = <<>> THEN cfg
    ELSE LET pair == SplitN2(Head(envs))
         IN  overlayEnvKeep(Tail(envs),
                 IF pair[1] \in DOMAIN cfg THEN cfg ELSE MapPut(cfg, pair[1], pair[2]))

RECURSIVE overlayEnv(_, _)
\* the loop of newCfg over os.Environ()
overlayEnv(envs, cfg) ==
    IF envs = <<>> THEN cfg
    ELSE LET pair == SplitN2(Head(envs))
         IN  overlayEnv(Tail(envs), MapPut(cfg, pair[1], pair[2]))

\* variant: the static file wins over the environment
newCfgFileWins(file, envs) ==
    LET r == readCfg(file)
    IN  IF r.err # Nil THEN r
        ELSE [cfg |-> overlayEnvKeep(envs, r.cfg), err |-> Nil]

\* newCfg: static file values overlaid by every environment variable
newCfg(file, envs) ==
    LET r == readCfg(file)
    IN  IF r.err # Nil THEN r
        ELSE [cfg |-> overlayEnv(envs, r.cfg), err |-> Nil]

\* ----------------------------------------------------- collapseErrors
RECURSIVE collapseLoop(_, _, _)
collapseLoop(ee, err, logs) ==
    IF ee = <<>> THEN [err |-> err, logs |-> logs]
    ELSE LET e == Head(ee)
         IN  IF e # Nil
             THEN IF err = Nil
                  THEN collapseLoop(Tail(ee), e, logs)
                  ELSE collapseLoop(Tail(ee), err, logs \cup {e})
             ELSE collapseLoop(Tail(ee), err, logs)

RECURSIVE collapseLast(_, _, _)
collapseLast(ee, err, logs) ==
    IF ee = <<>> THEN [err |-> err, logs |-> logs]
    ELSE LET e == Head(ee)
         IN  IF e # Nil
             THEN collapseLast(Tail(ee), e, IF err = Nil THEN logs ELSE logs \cup {err})
             ELSE collapseLast(Tail(ee), err, logs)

\* variant: the last non-nil error wins and the earlier ones are logged
collapseErrorsLast(ee) == collapseLast(ee, Nil, {})

\* collapseErrors: first non-nil error; the rest are logged
collapseErrors(ee) == collapseLoop(ee, Nil, {})

\* ------------------------------------------------------ input universes
\* process environments: variable name |-> value
Environs ==
    { (<<"A">> :> <<"1">>) @@ (<<"B">> :> <<"x", "=", "y">>) }

\* contents of ./cfg, one string per line (NoFile: the file does not exist)
CfgFiles ==
    { NoFile,
      << <<"A", "=", QT, "f", QT>>, <<SP, "C", SP, "=", SP, "v", SP>> >>,
      << <<"C", "=", "v">>, <<"b", "a", "d">> >> }

ServeErrors == {"ErrServe"}
StartErrors == {"ErrStart"}
StopErrors  == {"ErrStop"}
CloseErrors == {"ErrClose"}

\* ctx.Err() of a context whose deadline passed
DeadlineExceeded == "context deadline exceeded"

\* the Services serving HTTP: part_006, and the one of src/http/service.go
\* that opens its listener inside handleRequests
HttpBindings == {"http", "httpenv"}

\* the Services built on an http.Server
ServerBindings == HttpBindings \cup {"cloudevents"}

\* ---------------------------------------------------------------- state
VARIABLES
    binding,     \* which Service: "http", "kafka", "httpenv" or "cloudevents"
    f,           \* the handler: the set of optional roles it implements
    environ,     \* the process environment
    cfgFile,     \* the static file ./cfg
    pc,          \* position of Start ("main") and of the three goroutines
    ctxDone,     \* the context passed to Start is canceled
    cancelAt,    \* was Start waiting in its select when the context was canceled
    err,         \* Start's named result err (sourceErr of shutdown)
    trigger,     \* the case the select took / who resolved the wait
    cfg,         \* the config captured by the Start hook goroutine
    hookCfg,     \* the config the Start hook was invoked with
    startCalls,  \* invocations of the Start hook
    startErr,    \* value returned by the Start hook
    sigs,        \* the buffered channel of handleSignals
    sigCount,    \* signals delivered so far
    serveErr,    \* value returned by Serve / consume
    transport,   \* listener / reader: "none", "open", "closed"
    closeCalls,  \* calls of Server.Shutdown / reader.Close
    stopCalls,   \* invocations of the Stop hook
    runtimeErr,  \* shutdown's runtimeErr / readerErr
    instanceErr, \* shutdown's instanceErr
    result,      \* the value Start returned
    logged,      \* errors written with log.Error()
    stopHangs,   \* the handler's Stop never returns, whatever its context does
    inFlight,    \* requests being served by the http.Server
    closeExpired,\* the ServerShutdownTimeout context of shutdown has expired
    stopExpired, \* the InstanceStopTimeout context of shutdown has expired
    handler,     \* the handler value: wrapper kind and the shape of its Handle
    resolved,    \* outcome of resolving the handler at construction
    receiver,    \* the shape interface the resolver or dispatcher selected
    consumed,    \* messages read from the topic
    handleCalls, \* invocations of the handler's Handle
    dispatchErrs,\* messages whose dispatch ended in an unsupported-signature error
    probes,      \* probe requests sent so far, per probe path
    hookCalls,   \* invocations of the Ready / Alive hook, per probe path
    lastProbe,   \* the latest probe: what the hook did and what the caller got
    listenerAddr,\* address bound by net.Listen in Start (s.listener)
    servedAddr,  \* address of the listener the http.Server serves
    exitCode,    \* exit status of the process running main
    addr,        \* the string listenAddress() returned
    msg,         \* the Kafka message the consume loop holds
    lastEvent,   \* the CloudEvent the latest message was turned into
    closedReads, \* ReadMessage calls made on the reader after it was closed
    ready,       \* ConsumerGroupHandler.ready, a channel: "open" or "closed"
    setupCalls,  \* calls of ConsumerGroupHandler.Setup
    setupPanics, \* Setup calls that ended in a run-time panic
    sessionDone, \* the consumer group session's context is done
    claimMessages, \* messages waiting in claim.Messages()
    claimClosed, \* claim.Messages() has been closed
    cgPc,        \* position of ConsumeClaim
    current,     \* the message ConsumeClaim is handling
    delivered,   \* messages passed to the handler by ConsumeClaim, in order
    results,     \* what the handler returned for them, in order
    marked       \* messages marked as processed on the session

vars == << binding, f, environ, cfgFile, pc, ctxDone, cancelAt, err, trigger, cfg,
           hookCfg, startCalls, startErr, sigs, sigCount, serveErr,
           transport, closeCalls, stopCalls, runtimeErr, instanceErr,
           result, logged, stopHangs, inFlight, closeExpired, stopExpired,
           handler, resolved, receiver, consumed, handleCalls, dispatchErrs,
           probes, hookCalls, lastProbe, listenerAddr, servedAddr,
           exitCode, addr, msg, lastEvent, closedReads, ready, setupCalls, setupPanics,
           sessionDone, claimMessages, claimClosed, cgPc, current, delivered,
           results, marked >>

static == << binding, f, environ, cfgFile >>

ctx == << ctxDone, cancelAt >>

timing == << stopHangs, inFlight, closeExpired, stopExpired >>

dispatch == << handler, resolved, receiver, consumed, handleCalls, dispatchErrs >>

probing == << probes, hookCalls, lastProbe >>

addrs == << listenerAddr, servedAddr >>

process == << exitCode, addr >>

decoding == << msg, lastEvent, closedReads >>

group == << ready, setupCalls, setupPanics, sessionDone, claimMessages,
            claimClosed, cgPc, current, delivered, results, marked >>

others == << process, decoding, group >>

Goroutines == {"starter", "signals", "serve"}

\* f.(Starter), f.(Stopper): interface membership of the handler
Implements(h, role) == role \in h

\* the two probe paths of the mux
ProbePaths == {"readiness", "liveness"}

\* no probe has been answered yet
NoProbe ==
    [path |-> "none", called |-> FALSE, val |-> FALSE, err |-> Nil,
     panic |-> FALSE, status |-> 0, body |-> <<>>]

\* a bound address is a host and a port; NoAddr: nothing bound
NoAddr == [host |-> "none", port |-> "none"]

\* the process is running
NotExited == -1

\* the consume loop holds no message ; no message has been decoded
NoMsg == [value |-> "none", ceType |-> FALSE, topic |-> "none", partition |-> 0, offset |-> 0]
NoEvent == [mode |-> "none", type |-> <<>>, source |-> <<>>, id |-> <<>>]

\* NewConsumerGroupHandler: ready: make(chan bool) ; no session yet
NoGroup ==
    /\ ready = "open"
    /\ setupCalls = 0
    /\ setupPanics = 0
    /\ sessionDone = FALSE
    /\ claimMessages = <<>>
    /\ claimClosed = FALSE
    /\ cgPc = "idle"
    /\ current = 0
    /\ delivered = <<>>
    /\ results = <<>>
    /\ marked = {}

\* nothing has run yet: no goroutine, no error, no call
FreshService ==
    /\ ctxDone = FALSE
    /\ cancelAt = "none"
    /\ err = Nil
    /\ trigger = "none"
    /\ cfg = EmptyMap
    /\ hookCfg = EmptyMap
    /\ startCalls = 0
    /\ startErr = Nil
    /\ sigs = <<>>
    /\ sigCount = 0
    /\ serveErr = Nil
    /\ transport = "none"
    /\ closeCalls = 0
    /\ stopCalls = 0
    /\ runtimeErr = Nil
    /\ instanceErr = Nil
    /\ result = Nil
    /\ logged = {}
    /\ inFlight = 0
    /\ closeExpired = FALSE
    /\ stopExpired = FALSE
    /\ resolved = "none"
    /\ receiver = "none"
    /\ consumed = 0
    /\ handleCalls = 0
    /\ dispatchErrs = 0
    /\ probes = [p \in ProbePaths |-> 0]
    /\ hookCalls = [p \in ProbePaths |-> 0]
    /\ lastProbe = NoProbe
    /\ listenerAddr = NoAddr
    /\ servedAddr = NoAddr
    /\ exitCode = NotExited
    /\ addr = <<>>
    /\ msg = NoMsg
    /\ lastEvent = NoEvent
    /\ closedReads = 0

Fresh == FreshService /\ NoGroup

\* New: the unbuffered stop channel, nothing started yet
Created ==
    /\ pc = [g \in Goroutines \cup {"main"} |-> IF g = "main" THEN "created" ELSE "none"]
    /\ Fresh

\* a handler value without a Handle method of its own
NoHandle ==
    [kind |-> "instance", has |-> FALSE, ctx |-> FALSE, arg |-> "none", ret |-> "none"]

\* the lifecycle of the Service around a handler whose hooks return
Init ==
    /\ binding \in Bindings
    /\ f \in SUBSET Roles
    /\ environ \in Environs
    /\ cfgFile \in CfgFiles
    /\ stopHangs = FALSE
    /\ handler = NoHandle
    /\ Created

\* --------------------------------------------------- the stop channel
\* pc of a goroutine once its send on s.stop has completed
AfterSend(g) == IF g = "signals" THEN "waiting" ELSE "done"

\* the value a goroutine blocked in `s.stop <- v` is sending
SendVal(g) ==
    IF g = "starter" THEN startErr
    ELSE IF g = "serve" THEN serveErr
    ELSE Nil

\* variant: the received value is logged but not assigned to err
ReceivedKeepErr(g, v, base) ==
    /\ err' = err
    /\ trigger' = g
    /\ logged' = IF v # Nil THEN base \cup {v} ELSE base

\* case err = <-s.stop: if err != nil { log.Error()... } ; then shutdown(err)
\* (base: the log as left by the sender before its send)
Received(g, v, base) ==
    /\ err' = v
    /\ trigger' = g
    /\ logged' = IF v # Nil THEN base \cup {v} ELSE base

\* s.stop <- v by goroutine g on the unbuffered channel: handed to Start when
\* it is parked in the select, otherwise the sender blocks.
Send(g, v, base) ==
    IF pc["main"] = "parked"
    THEN /\ pc' = [pc EXCEPT !["main"] = "shutdown", ![g] = AfterSend(g)]
         /\ Received(g, v, base)
    ELSE /\ pc' = [pc EXCEPT ![g] = "blocked"]
         /\ logged' = base
         /\ UNCHANGED << err, trigger >>

\* ------------------------------------------------------- Service.Start
\* http: s.listener, err = net.Listen("tcp", addr); return on error
Listen ==
    /\ pc["main"] = "created"
    /\ binding = "http"
    /\ \E ok \in BOOLEAN :
          IF ok
          THEN /\ transport' = "open"
               /\ pc' = [pc EXCEPT !["main"] = "listening"]
               /\ UNCHANGED << err, result >>
          ELSE /\ err' = "ErrListen"
               /\ result' = "ErrListen"
               /\ pc' = [pc EXCEPT !["main"] = "returned"]
               /\ UNCHANGED transport
    /\ UNCHANGED << static, probing, addrs, others, timing, dispatch, ctx, trigger, cfg, hookCfg, startCalls, startErr,
                    sigs, sigCount, serveErr, closeCalls, stopCalls,
                    runtimeErr, instanceErr, logged >>

\* kafka: s.reader = kafka.NewReader(...)
NewReader ==
    /\ pc["main"] = "created"
    /\ binding = "kafka"
    /\ transport' = "open"
    /\ pc' = [pc EXCEPT !["main"] = "listening"]
    /\ UNCHANGED << static, probing, addrs, others, timing, dispatch, ctx, err, trigger, cfg, hookCfg, startCalls,
                    startErr, sigs, sigCount, serveErr, closeCalls, stopCalls,
                    runtimeErr, instanceErr, result, logged >>

\* startInstance: for a Starter build the config and spawn the hook goroutine;
\* a config error is returned from Start
startInstance ==
    /\ pc["main"] = "listening"
    /\ IF Implements(f, "Starter")
       THEN LET r == newCfg(cfgFile, Environ(environ))
            IN  IF r.err # Nil
                THEN /\ err' = r.err
                     /\ result' = r.err
                     /\ pc' = [pc EXCEPT !["main"] = "returned"]
                     /\ UNCHANGED cfg
                ELSE /\ cfg' = r.cfg
                     /\ pc' = [pc EXCEPT !["main"] = "instanceStarted",
                                         !["starter"] = "spawned"]
                     /\ UNCHANGED << err, result >>
       ELSE /\ pc' = [pc EXCEPT !["main"] = "instanceStarted"]
            /\ UNCHANGED << cfg, err, result >>
    /\ UNCHANGED << static, probing, addrs, others, timing, dispatch, ctx, trigger, hookCfg, startCalls, startErr,
                    sigs, sigCount, serveErr, transport, closeCalls, stopCalls,
                    runtimeErr, instanceErr, logged >>

\* variant: Start goes on only after the Start hook has returned
handleSignalsAfterStart ==
    /\ pc["main"] = "instanceStarted"
    /\ pc["starter"] \notin {"spawned", "running"}
    /\ pc' = [pc EXCEPT !["main"] = "signalsInstalled", !["signals"] = "waiting"]
    /\ UNCHANGED << static, probing, addrs, others, timing, dispatch, ctx, err, trigger, cfg, hookCfg, startCalls,
                    startErr, sigs, sigCount, serveErr, transport, closeCalls,
                    stopCalls, runtimeErr, instanceErr, result, logged >>

\* handleSignals: signal.Notify(sigs) and the goroutine reading sigs
handleSignals ==
    /\ pc["main"] = "instanceStarted"
    /\ pc' = [pc EXCEPT !["main"] = "signalsInstalled", !["signals"] = "waiting"]
    /\ UNCHANGED << static, probing, addrs, others, timing, dispatch, ctx, err, trigger, cfg, hookCfg, startCalls,
                    startErr, sigs, sigCount, serveErr, transport, closeCalls,
                    stopCalls, runtimeErr, instanceErr, result, logged >>

\* go func() { s.Serve(s.listener) ... }() / go func() { s.stop <- s.consume(ctx) }()
GoServe ==
    /\ binding \in Bindings
    /\ pc["main"] = "signalsInstalled"
    /\ pc' = [pc EXCEPT !["main"] = "select", !["serve"] = "running"]
    /\ UNCHANGED << static, probing, addrs, others, timing, dispatch, ctx, err, trigger, cfg, hookCfg, startCalls,
                    startErr, sigs, sigCount, serveErr, transport, closeCalls,
                    stopCalls, runtimeErr, instanceErr, result, logged >>

\* senders blocked on s.stop
Blocked == { g \in Goroutines : pc[g] = "blocked" }

\* select { case err = <-s.stop: ... case <-ctx.Done(): ... }
\* Evaluated once: one of the ready cases is chosen; with none ready Start parks.
Select ==
    /\ pc["main"] = "select"
    /\ \/ \E g \in Blocked :
             /\ pc' = [pc EXCEPT !["main"] = "shutdown", ![g] = AfterSend(g)]
             /\ Received(g, SendVal(g), logged)
       \/ /\ ctxDone
          /\ pc' = [pc EXCEPT !["main"] = "shutdown"]
          /\ trigger' = "ctx"
          /\ UNCHANGED << err, logged >>
       \/ /\ Blocked = {}
          /\ ~ctxDone
          /\ pc' = [pc EXCEPT !["main"] = "parked"]
          /\ UNCHANGED << err, trigger, logged >>
    /\ UNCHANGED << static, probing, addrs, others, timing, dispatch, ctx, cfg, hookCfg, startCalls, startErr, sigs,
                    sigCount, serveErr, transport, closeCalls, stopCalls,
                    runtimeErr, instanceErr, result >>

\* Serving: everything is started and Start waits in (or is about to
\* evaluate) its select
Serving == pc["main"] \in {"select", "parked"}

\* variant: the select has no ctx.Done() case to wake it
CtxCancelNoWake ==
    /\ ~ctxDone
    /\ pc["main"] # "returned"
    /\ ctxDone' = TRUE
    /\ cancelAt' = IF Serving THEN "serving" ELSE "other"
    /\ UNCHANGED << static, probing, addrs, others, timing, dispatch, pc, trigger, err, cfg, hookCfg, startCalls, startErr,
                    sigs, sigCount, serveErr, transport, closeCalls, stopCalls,
                    runtimeErr, instanceErr, result, logged >>

\* the caller cancels the context passed to Start; a parked select takes
\* the ctx.Done() case
CtxCancel ==
    /\ ~ctxDone
    /\ pc["main"] # "returned"
    /\ ctxDone' = TRUE
    /\ cancelAt' = IF Serving THEN "serving" ELSE "other"
    /\ IF pc["main"] = "parked"
       THEN /\ pc' = [pc EXCEPT !["main"] = "shutdown"]
            /\ trigger' = "ctx"
       ELSE UNCHANGED << pc, trigger >>
    /\ UNCHANGED << static, probing, addrs, others, timing, dispatch, err, cfg, hookCfg, startCalls, startErr, sigs,
                    sigCount, serveErr, transport, closeCalls, stopCalls,
                    runtimeErr, instanceErr, result, logged >>

\* --------------------------------------------------- Start hook goroutine
\* go func() { if err := i.Start(ctx, cfg); ... }(): the hook is invoked
StartCall ==
    /\ pc["starter"] = "spawned"
    /\ startCalls' = startCalls + 1
    /\ hookCfg' = cfg
    /\ pc' = [pc EXCEPT !["starter"] = "running"]
    /\ UNCHANGED << static, probing, addrs, others, timing, dispatch, ctx, err, trigger, cfg, startErr, sigs, sigCount,
                    serveErr, transport, closeCalls, stopCalls, runtimeErr,
                    instanceErr, result, logged >>

\* the hook returns e; if err != nil { s.stop <- err }
StartReturn ==
    /\ pc["starter"] = "running"
    /\ \E e \in {Nil} \cup StartErrors :
          /\ startErr' = e
          /\ IF e # Nil
             THEN Send("starter", e, logged)
             ELSE /\ pc' = [pc EXCEPT !["starter"] = "done"]
                  /\ UNCHANGED << err, trigger, logged >>
    /\ UNCHANGED << static, probing, addrs, others, timing, dispatch, ctx, cfg, hookCfg, startCalls, sigs, sigCount,
                    serveErr, transport, closeCalls, stopCalls, runtimeErr,
                    instanceErr, result >>

\* ------------------------------------------------------- signal goroutine
\* the runtime relays a signal to sigs; it is dropped when the buffer is full
SignalDeliver ==
    /\ pc["signals"] # "none"
    /\ pc["main"] # "returned"
    /\ sigCount < MaxSignals
    /\ \E sig \in Signals :
          sigs' = IF Len(sigs) < SigsCap THEN Append(sigs, sig) ELSE sigs
    /\ sigCount' = sigCount + 1
    /\ UNCHANGED << static, probing, addrs, others, timing, dispatch, pc, ctx, err, trigger, cfg, hookCfg, startCalls,
                    startErr, serveErr, transport, closeCalls, stopCalls,
                    runtimeErr, instanceErr, result, logged >>

\* variant: every signal read from sigs stops the service
SignalRecvAny ==
    /\ pc["signals"] = "waiting"
    /\ sigs # <<>>
    /\ sigs' = Tail(sigs)
    /\ Send("signals", Nil, logged)
    /\ UNCHANGED << static, probing, addrs, others, timing, dispatch, ctx, cfg, hookCfg, startCalls, startErr, sigCount,
                    serveErr, transport, closeCalls, stopCalls, runtimeErr,
                    instanceErr, result >>

\* sig := <-sigs; SIGINT and SIGTERM send nil on s.stop, anything else is ignored
SignalRecv ==
    /\ pc["signals"] = "waiting"
    /\ sigs # <<>>
    /\ sigs' = Tail(sigs)
    /\ IF Head(sigs) \in {"SIGINT", "SIGTERM"}
       THEN Send("signals", Nil, logged)
       ELSE UNCHANGED << pc, err, trigger, logged >>
    /\ UNCHANGED << static, probing, addrs, others, timing, dispatch, ctx, cfg, hookCfg, startCalls, startErr, sigCount,
                    serveErr, transport, closeCalls, stopCalls, runtimeErr,
                    instanceErr, result >>

\* -------------------------------------------------------- serve goroutine
\* http: Serve returns an error other than ErrServerClosed: logged, then sent
ServeFail ==
    /\ binding \in ServerBindings
    /\ pc["serve"] = "running"
    /\ transport = "open"
    /\ \E e \in ServeErrors :
          /\ serveErr' = e
          /\ Send("serve", e, logged \cup {e})
    /\ UNCHANGED << static, probing, addrs, others, timing, dispatch, ctx, cfg, hookCfg, startCalls, startErr, sigs,
                    sigCount, transport, closeCalls, stopCalls, runtimeErr,
                    instanceErr, result >>

\* http: after Shutdown, Serve returns ErrServerClosed and nothing is sent
ServeClosed ==
    /\ binding \in ServerBindings
    /\ pc["serve"] = "running"
    /\ transport = "closed"
    /\ pc' = [pc EXCEPT !["serve"] = "done"]
    /\ UNCHANGED << static, probing, addrs, others, timing, dispatch, ctx, err, trigger, cfg, hookCfg, startCalls,
                    startErr, sigs, sigCount, serveErr, transport, closeCalls,
                    stopCalls, runtimeErr, instanceErr, result, logged >>

\* kafka: consume returns nil once ctx is done, and that nil is sent on s.stop
consumeReturn ==
    /\ binding = "kafka"
    /\ pc["serve"] = "running"
    /\ ctxDone
    /\ Send("serve", Nil, logged)
    /\ UNCHANGED << static, probing, addrs, others, timing, dispatch, ctx, cfg, hookCfg, startCalls, startErr, sigs,
                    sigCount, serveErr, transport, closeCalls, stopCalls,
                    runtimeErr, instanceErr, result >>

\* ---------------------------------------------------------------- shutdown
\* variant: the Stop hook is invoked before the transport is closed
shutdownStopFirst ==
    /\ pc["main"] = "shutdown"
    /\ IF Implements(f, "Stopper")
       THEN /\ stopCalls' = stopCalls + 1
            /\ pc' = [pc EXCEPT !["main"] = "stopping"]
            /\ UNCHANGED << closeCalls, transport >>
       ELSE /\ closeCalls' = closeCalls + 1
            /\ transport' = "closed"
            /\ pc' = [pc EXCEPT !["main"] = "closing"]
            /\ UNCHANGED stopCalls
    /\ UNCHANGED << static, probing, addrs, others, timing, dispatch, ctx, err, trigger, cfg, hookCfg, startCalls,
                    startErr, sigs, sigCount, serveErr, runtimeErr,
                    instanceErr, result, logged >>

\* shutdown(err): first the transport close is called
\* (http: s.Shutdown(ctx) ; kafka: s.reader.Close())
shutdown ==
    /\ pc["main"] = "shutdown"
    /\ closeCalls' = closeCalls + 1
    /\ transport' = "closed"
    /\ pc' = [pc EXCEPT !["main"] = "closing"]
    /\ UNCHANGED << static, probing, addrs, others, timing, dispatch, ctx, err, trigger, cfg, hookCfg, startCalls,
                    startErr, sigs, sigCount, serveErr, stopCalls, runtimeErr,
                    instanceErr, result, logged >>

\* variant: Server.Shutdown with a context that never expires
CloseReturnNoDeadline ==
    /\ pc["main"] = "closing"
    /\ \E e \in {Nil} \cup CloseErrors :
          /\ inFlight = 0
          /\ runtimeErr' = e
    /\ pc' = [pc EXCEPT !["main"] = "closed"]
    /\ UNCHANGED << static, probing, addrs, others, timing, dispatch, ctx, err, trigger, cfg, hookCfg, startCalls,
                    startErr, sigs, sigCount, serveErr, transport, closeCalls,
                    stopCalls, instanceErr, result, logged >>

\* the transport close returns runtimeErr / readerErr
CloseReturn ==
    /\ pc["main"] = "closing"
    /\ \E e \in {Nil, DeadlineExceeded} \cup CloseErrors :
          /\ e = DeadlineExceeded => closeExpired /\ binding \in ServerBindings
          /\ e # DeadlineExceeded => inFlight = 0
          /\ runtimeErr' = e
    /\ pc' = [pc EXCEPT !["main"] = "closed"]
    /\ UNCHANGED << static, probing, addrs, others, timing, dispatch, ctx, err, trigger, cfg, hookCfg, startCalls,
                    startErr, sigs, sigCount, serveErr, transport, closeCalls,
                    stopCalls, instanceErr, result, logged >>

\* variant: Stop is invoked without the Stopper type assertion
StopCallUnguarded ==
    /\ pc["main"] = "closed"
    /\ stopCalls' = stopCalls + 1
    /\ pc' = [pc EXCEPT !["main"] = "stopping"]
    /\ UNCHANGED << static, probing, addrs, others, timing, dispatch, ctx, err, trigger, cfg, hookCfg, startCalls,
                    startErr, sigs, sigCount, serveErr, transport, closeCalls,
                    runtimeErr, instanceErr, result, logged >>

\* if i, ok := s.f.(Stopper); ok { instanceErr = i.Stop(ctx) }: the hook is invoked
StopCall ==
    /\ pc["main"] = "closed"
    /\ Implements(f, "Stopper")
    /\ stopCalls' = stopCalls + 1
    /\ pc' = [pc EXCEPT !["main"] = "stopping"]
    /\ UNCHANGED << static, probing, addrs, others, timing, dispatch, ctx, err, trigger, cfg, hookCfg, startCalls,
                    startErr, sigs, sigCount, serveErr, transport, closeCalls,
                    runtimeErr, instanceErr, result, logged >>

\* the Stop hook returns instanceErr
StopReturn ==
    /\ pc["main"] = "stopping"
    /\ ~stopHangs
    /\ \E e \in {Nil} \cup StopErrors : instanceErr' = e
    /\ pc' = [pc EXCEPT !["main"] = "collapse"]
    /\ UNCHANGED << static, probing, addrs, others, timing, dispatch, ctx, err, trigger, cfg, hookCfg, startCalls,
                    startErr, sigs, sigCount, serveErr, transport, closeCalls,
                    stopCalls, runtimeErr, result, logged >>

\* variant: the close error is passed before the Stop hook error
shutdownErrorsCloseFirst == << err, runtimeErr, instanceErr >>

\* the argument list of the collapseErrors call in shutdown
shutdownErrors == << err, instanceErr, runtimeErr >>

\* variant: the wait is a loop, Start goes back to its select while a
\* sender is still pending
ShutdownReturnLoop ==
    /\ \/ pc["main"] = "collapse"
       \/ pc["main"] = "closed" /\ ~Implements(f, "Stopper")
    /\ LET r == collapseErrors(shutdownErrors)
       IN  /\ result' = r.err
           /\ logged' = logged \cup r.logs
    /\ pc' = [pc EXCEPT !["main"] = IF Blocked # {} THEN "select" ELSE "returned"]
    /\ UNCHANGED << static, probing, addrs, others, timing, dispatch, ctx, err, trigger, cfg, hookCfg, startCalls,
                    startErr, sigs, sigCount, serveErr, transport, closeCalls,
                    stopCalls, runtimeErr, instanceErr >>

\* return collapseErrors("shutdown error", sourceErr, instanceErr, runtimeErr)
ShutdownReturn ==
    /\ \/ pc["main"] = "collapse"
       \/ pc["main"] = "closed" /\ ~Implements(f, "Stopper")
    /\ LET r == collapseErrors(shutdownErrors)
       IN  /\ result' = r.err
           /\ logged' = logged \cup r.logs
    /\ pc' = [pc EXCEPT !["main"] = "returned"]
    /\ UNCHANGED << static, probing, addrs, others, timing, dispatch, ctx, err, trigger, cfg, hookCfg, startCalls,
                    startErr, sigs, sigCount, serveErr, transport, closeCalls,
                    stopCalls, runtimeErr, instanceErr >>

\* ------------------------------------------------------------ specification
Next ==
    \/ Listen
    \/ NewReader
    \/ startInstance
    \/ handleSignals
    \/ GoServe
    \/ Select
    \/ CtxCancel
    \/ StartCall
    \/ StartReturn
    \/ SignalDeliver
    \/ SignalRecv
    \/ ServeFail
    \/ ServeClosed
    \/ consumeReturn
    \/ shutdown
    \/ CloseReturn
    \/ StopCall
    \/ StopReturn
    \/ ShutdownReturn

Spec == Init /\ [][Next]_vars

\* Fairness: the Go scheduler runs every runnable goroutine; the transport
\* close returns (it is bounded by its context or is a plain Close); the Stop
\* hook is assumed to return.  Nothing obliges the caller to cancel, a signal
\* to arrive, Serve to fail or the Start hook to return.
FairSpec ==
    /\ Spec
    /\ WF_vars(Listen) /\ WF_vars(NewReader) /\ WF_vars(startInstance)
    /\ WF_vars(handleSignals) /\ WF_vars(GoServe) /\ WF_vars(Select)
    /\ WF_vars(StartCall) /\ WF_vars(SignalRecv) /\ WF_vars(ServeClosed)
    /\ WF_vars(consumeReturn) /\ WF_vars(shutdown) /\ WF_vars(CloseReturn)
    /\ WF_vars(StopCall) /\ WF_vars(StopReturn) /\ WF_vars(ShutdownReturn)

\* ------------------------------------------------- shutdown time limits
\* requests the http.Server accepts during one run
MaxRequests == 1

\* the http.Server accepts a request and calls Service.Handle
Request ==
    /\ binding \in HttpBindings
    /\ pc["serve"] = "running"
    /\ transport = "open"
    /\ handleCalls < MaxRequests
    /\ handleCalls' = handleCalls + 1
    /\ inFlight' = inFlight + 1
    /\ UNCHANGED << static, probing, addrs, others, ctx, pc, err, trigger, cfg, hookCfg,
                    startCalls, startErr, sigs, sigCount, serveErr, transport,
                    closeCalls, stopCalls, runtimeErr, instanceErr, result,
                    logged, stopHangs, closeExpired, stopExpired, handler,
                    resolved, receiver, consumed, dispatchErrs >>

\* s.f.Handle returns; a handler may as well never return
RequestDone ==
    /\ inFlight > 0
    /\ inFlight' = inFlight - 1
    /\ UNCHANGED << static, probing, addrs, others, dispatch, ctx, pc, err, trigger, cfg, hookCfg,
                    startCalls, startErr, sigs, sigCount, serveErr, transport,
                    closeCalls, stopCalls, runtimeErr, instanceErr, result,
                    logged, stopHangs, closeExpired, stopExpired >>

\* ServerShutdownTimeout elapses while Server.Shutdown is waiting
CloseExpire ==
    /\ binding \in HttpBindings
    /\ pc["main"] = "closing"
    /\ ~closeExpired
    /\ closeExpired' = TRUE
    /\ UNCHANGED << static, probing, addrs, others, dispatch, ctx, pc, err, trigger, cfg, hookCfg,
                    startCalls, startErr, sigs, sigCount, serveErr, transport,
                    closeCalls, stopCalls, runtimeErr, instanceErr, result,
                    logged, stopHangs, inFlight, stopExpired >>

\* InstanceStopTimeout elapses while the Stop hook is running
StopExpire ==
    /\ pc["main"] = "stopping"
    /\ ~stopExpired
    /\ stopExpired' = TRUE
    /\ UNCHANGED << static, probing, addrs, others, dispatch, ctx, pc, err, trigger, cfg, hookCfg,
                    startCalls, startErr, sigs, sigCount, serveErr, transport,
                    closeCalls, stopCalls, runtimeErr, instanceErr, result,
                    logged, stopHangs, inFlight, closeExpired >>

\* Start around handlers whose requests and Stop hook may never finish
TimeoutInit ==
    /\ binding \in Bindings
    /\ f \in SUBSET Roles
    /\ environ \in Environs
    /\ cfgFile = NoFile
    /\ stopHangs \in BOOLEAN
    /\ handler = NoHandle
    /\ Created

TimeoutNext ==
    \/ Listen
    \/ NewReader
    \/ startInstance
    \/ handleSignals
    \/ GoServe
    \/ Select
    \/ CtxCancel
    \/ StartCall
    \/ StartReturn
    \/ ServeFail
    \/ ServeClosed
    \/ consumeReturn
    \/ Request
    \/ RequestDone
    \/ shutdown
    \/ CloseExpire
    \/ CloseReturn
    \/ StopCall
    \/ StopExpire
    \/ StopReturn
    \/ ShutdownReturn

\* Fairness: every runnable goroutine runs and time passes, so a running
\* timeout expires; Server.Shutdown returns once it can; a Stop hook that
\* does not hang returns.  No request is obliged to finish.
TimeoutSpec ==
    /\ TimeoutInit /\ [][TimeoutNext]_vars
    /\ WF_vars(Listen) /\ WF_vars(NewReader) /\ WF_vars(startInstance)
    /\ WF_vars(handleSignals) /\ WF_vars(GoServe) /\ WF_vars(Select)
    /\ WF_vars(StartCall) /\ WF_vars(ServeClosed) /\ WF_vars(consumeReturn)
    /\ WF_vars(shutdown) /\ WF_vars(CloseExpire) /\ WF_vars(CloseReturn)
    /\ WF_vars(StopCall) /\ WF_vars(StopExpire) /\ WF_vars(StopReturn)
    /\ WF_vars(ShutdownReturn)

\* ------------------------------------------- a Start hook that blocks
\* Start around a Starter whose Start hook never returns
HangInit ==
    /\ binding \in Bindings
    /\ f \in { r \in SUBSET Roles : Implements(r, "Starter") }
    /\ environ \in Environs
    /\ cfgFile = NoFile
    /\ stopHangs = FALSE
    /\ handler = NoHandle
    /\ Created

\* every step of the lifecycle but the return of the Start hook
HangNext ==
    \/ Listen
    \/ NewReader
    \/ startInstance
    \/ handleSignals
    \/ GoServe
    \/ Select
    \/ CtxCancel
    \/ StartCall
    \/ SignalDeliver
    \/ SignalRecv
    \/ ServeFail
    \/ ServeClosed
    \/ consumeReturn
    \/ shutdown
    \/ CloseReturn
    \/ StopCall
    \/ StopReturn
    \/ ShutdownReturn

\* Fairness as in FairSpec
HangSpec ==
    /\ HangInit /\ [][HangNext]_vars
    /\ WF_vars(Listen) /\ WF_vars(NewReader) /\ WF_vars(startInstance)
    /\ WF_vars(handleSignals) /\ WF_vars(GoServe) /\ WF_vars(Select)
    /\ WF_vars(StartCall) /\ WF_vars(SignalRecv) /\ WF_vars(ServeClosed)
    /\ WF_vars(consumeReturn) /\ WF_vars(shutdown) /\ WF_vars(CloseReturn)
    /\ WF_vars(StopCall) /\ WF_vars(StopReturn) /\ WF_vars(ShutdownReturn)

\* -------------------------- the HTTP Service of src/http/service.go
\* allEnvs: the process environment as a map, no static file involved
allEnvs(envs) == overlayEnv(envs, EmptyMap)

\* startInstance: a Starter's hook is spawned with allEnvs(); nothing can fail
startInstanceEnv ==
    /\ binding = "httpenv"
    /\ pc["main"] = "created"
    /\ IF Implements(f, "Starter")
       THEN /\ cfg' = allEnvs(Environ(environ))
            /\ pc' = [pc EXCEPT !["main"] = "instanceStarted", !["starter"] = "spawned"]
       ELSE /\ pc' = [pc EXCEPT !["main"] = "instanceStarted"]
            /\ UNCHANGED cfg
    /\ UNCHANGED << static, probing, addrs, others, timing, dispatch, ctx, err, trigger, hookCfg, startCalls,
                    startErr, sigs, sigCount, serveErr, transport, closeCalls,
                    stopCalls, runtimeErr, instanceErr, result, logged >>

\* handleRequests, called by Start itself: on a bind error Start sends the
\* error on the unbuffered s.stop before it has reached its select, so no
\* receiver exists; otherwise the Serve goroutine is spawned
handleRequests ==
    /\ binding = "httpenv"
    /\ pc["main"] = "signalsInstalled"
    /\ \E ok \in BOOLEAN :
          IF ok
          THEN /\ transport' = "open"
               /\ pc' = [pc EXCEPT !["main"] = "select", !["serve"] = "running"]
               /\ UNCHANGED serveErr
          ELSE /\ serveErr' = "ErrListen"
               /\ pc' = [pc EXCEPT !["main"] = "sending"]
               /\ UNCHANGED transport
    /\ UNCHANGED << static, probing, addrs, others, timing, dispatch, ctx, err, trigger, cfg, hookCfg, startCalls,
                    startErr, sigs, sigCount, closeCalls, stopCalls,
                    runtimeErr, instanceErr, result, logged >>

HttpEnvInit ==
    /\ binding = "httpenv"
    /\ f \in SUBSET Roles
    /\ environ \in Environs
    /\ cfgFile = NoFile
    /\ stopHangs = FALSE
    /\ handler = NoHandle
    /\ Created

HttpEnvNext ==
    \/ startInstanceEnv
    \/ handleSignals
    \/ handleRequests
    \/ Select
    \/ CtxCancel
    \/ StartCall
    \/ StartReturn
    \/ SignalDeliver
    \/ SignalRecv
    \/ ServeFail
    \/ ServeClosed
    \/ shutdown
    \/ CloseReturn
    \/ StopCall
    \/ StopReturn
    \/ ShutdownReturn

\* Fairness as in FairSpec
HttpEnvSpec ==
    /\ HttpEnvInit /\ [][HttpEnvNext]_vars
    /\ WF_vars(startInstanceEnv) /\ WF_vars(handleSignals)
    /\ WF_vars(handleRequests) /\ WF_vars(Select) /\ WF_vars(StartCall)
    /\ WF_vars(SignalRecv) /\ WF_vars(ServeClosed) /\ WF_vars(shutdown)
    /\ WF_vars(CloseReturn) /\ WF_vars(StopCall) /\ WF_vars(StopReturn)
    /\ WF_vars(ShutdownReturn)

\* ------------------------------------------------- the Config builder
\* lines a static file may hold
MaxLines == 2

\* lines of ./cfg: a quoted value, padded key and value, a plain pair, a
\* line without "="
CfgLines ==
    { <<"A", "=", QT, "f", QT>>,
      <<SP, "C", SP, "=", SP, "v", SP>>,
      <<"B", "=", "q">>,
      <<"b", "a", "d">>,
      <<>>,
      <<SP>> }

RECURSIVE FilesUpTo(_)
\* the files of at most n lines
FilesUpTo(n) ==
    IF n = 0 THEN { <<>> }
    ELSE LET shorter == FilesUpTo(n - 1)
         IN  shorter \cup { Append(file, l) : file \in shorter, l \in CfgLines }

CfgInputs == {NoFile} \cup FilesUpTo(MaxLines)

\* process environments over the variables A and B
CfgEnvirons ==
    UNION { [D -> { <<"1">>, <<"x", "=", "y">> }] : D \in SUBSET { <<"A">>, <<"B">> } }

CfgInit ==
    /\ binding \in Bindings
    /\ f = {"Starter"}
    /\ environ \in CfgEnvirons
    /\ cfgFile \in CfgInputs
    /\ stopHangs = FALSE
    /\ handler = NoHandle
    /\ Created

\* cfg, err := newCfg()
newCfgCall ==
    /\ pc["main"] = "created"
    /\ LET r == newCfg(cfgFile, Environ(environ))
       IN  /\ cfg' = r.cfg
           /\ err' = r.err
    /\ pc' = [pc EXCEPT !["main"] = "cfgBuilt"]
    /\ UNCHANGED << static, probing, addrs, others, timing, dispatch, ctx, trigger, hookCfg, startCalls,
                    startErr, sigs, sigCount, serveErr, transport, closeCalls,
                    stopCalls, runtimeErr, instanceErr, result, logged >>

CfgNext == newCfgCall

CfgSpec == CfgInit /\ [][CfgNext]_vars

\* --------------------------------- handler shapes and their resolution
\* messages or events delivered during one run
MaxMsgs == 2

\* parameter after the optional context, and result, of a Handle: "other"
\* stands for any type the bindings do not know
Args == {"none", "event", "message", "other"}
Rets == {"none", "err", "evt", "evterr", "other"}

\* how the handler value is built: an instance with its own methods, a
\* DefaultHandler wrapping a plain function, a DefaultHandler wrapping an
\* instance
Kinds == {"instance", "defaultFunc", "defaultInstance"}

\* the handler values: has = FALSE is a value without any Handle (or a
\* DefaultHandler whose Handler is not set)
Handlers ==
    { hd \in [kind : Kinds, has : BOOLEAN, ctx : BOOLEAN, arg : Args, ret : Rets] :
         ~hd.has => (~hd.ctx /\ hd.arg = "none" /\ hd.ret = "none") }

Iface(name, c, a, r) == [name |-> name, ctx |-> c, arg |-> a, ret |-> r]

\* the case list of getReceiverFn, in its order
ceInterfaces ==
    << Iface("handler", FALSE, "none", "none"),
       Iface("handlerErr", FALSE, "none", "err"),
       Iface("handlerCtx", TRUE, "none", "none"),
       Iface("handlerCtxErr", TRUE, "none", "err"),
       Iface("handlerEvt", FALSE, "event", "none"),
       Iface("handlerEvtErr", FALSE, "event", "err"),
       Iface("handlerCtxEvt", TRUE, "event", "none"),
       Iface("handlerCtxEvtErr", TRUE, "event", "err"),
       Iface("handlerEvtEvt", FALSE, "event", "evt"),
       Iface("handlerEvtEvtErr", FALSE, "event", "evterr"),
       Iface("handlerCtxEvtEvt", TRUE, "event", "evt"),
       Iface("handlerCtxEvtEvtErr", TRUE, "event", "evterr") >>

\* the case list of the Kafka invokeCloudEventHandlerFn, in its order
kafkaCEInterfaces ==
    << Iface("handlerCtxEvtEvtErr", TRUE, "event", "evterr"),
       Iface("handlerEvtEvtErr", FALSE, "event", "evterr"),
       Iface("handlerCtxEvtErr", TRUE, "event", "err"),
       Iface("handlerEvtErr", FALSE, "event", "err"),
       Iface("handlerCtxEvt", TRUE, "event", "none"),
       Iface("handlerEvt", FALSE, "event", "none"),
       Iface("handlerCtxErr", TRUE, "none", "err"),
       Iface("handlerCtx", TRUE, "none", "none"),
       Iface("handlerErr", FALSE, "none", "err"),
       Iface("handler", FALSE, "none", "none") >>

\* the case list of invokeRawHandler (and of getHandlerType)
rawInterfaces ==
    << Iface("handlerMsg", FALSE, "message", "err"),
       Iface("handlerCtxMsg", TRUE, "message", "err") >>

\* the method set seen by a type assertion: a value without a Handle
NoMethod == [has |-> FALSE, ctx |-> FALSE, arg |-> "none", ret |-> "none"]

Signature(hd) == [has |-> hd.has, ctx |-> hd.ctx, arg |-> hd.arg, ret |-> hd.ret]

\* the Handle method of the value f itself: a DefaultHandler struct has none
MethodOfF(hd) == IF hd.kind = "instance" THEN Signature(hd) ELSE NoMethod

\* the Handle method of dh.Handler: a plain function value has no methods
MethodOfWrapped(hd) == IF hd.kind = "defaultInstance" THEN Signature(hd) ELSE NoMethod

\* variant: the type assertion does not look at the context parameter
SatisfiesAnyCtx(m, i) == m.has /\ m.arg = i.arg /\ m.ret = i.ret

\* h.(iface): the dynamic type has a Handle of exactly the interface's signature
Satisfies(m, i) == m.has /\ m.ctx = i.ctx /\ m.arg = i.arg /\ m.ret = i.ret

\* switch h.(type): index of the first case that matches, 0 for default
TypeSwitch(m, ifaces) ==
    LET hits == { i \in 1..Len(ifaces) : Satisfies(m, ifaces[i]) }
    IN  IF hits = {} THEN 0 ELSE CHOOSE i \in hits : \A j \in hits : i <= j

\* variant: an unmatched handler gets a receiver that does nothing
getReceiverFnNoop(hd) ==
    LET i == TypeSwitch(MethodOfF(hd), ceInterfaces)
    IN  IF i = 0 THEN "noop" ELSE ceInterfaces[i].name

\* getReceiverFn: the Handle of the first interface f satisfies, else panic
getReceiverFn(hd) ==
    LET i == TypeSwitch(MethodOfF(hd), ceInterfaces)
    IN  IF i = 0 THEN "panic" ELSE ceInterfaces[i].name

\* cloudevents.NewHTTPReceiveHandler accepts h only if it is a function of
\* one of the twelve signatures; its error is turned into a panic by panicOn
sdkAccepts(hd) ==
    /\ hd.kind = "defaultFunc"
    /\ TypeSwitch(Signature(hd), ceInterfaces) # 0

\* newCloudeventHandler: a DefaultHandler's function goes to the SDK as it
\* is, anything else through getReceiverFn
newCloudeventHandler(hd) ==
    IF hd.kind # "instance"
    THEN IF sdkAccepts(hd) THEN "dh.Handler" ELSE "panic"
    ELSE getReceiverFn(hd)

\* cloudevents New(f): wires newCloudeventHandler(f) into the mux, or panics
NewCloudEvents ==
    /\ binding = "cloudevents"
    /\ pc["main"] = "new"
    /\ LET r == newCloudeventHandler(handler)
       IN  IF r = "panic"
           THEN /\ pc' = [pc EXCEPT !["main"] = "panicked"]
                /\ resolved' = "panic"
                /\ UNCHANGED receiver
           ELSE /\ pc' = [pc EXCEPT !["main"] = "created"]
                /\ resolved' = "ok"
                /\ receiver' = r
    /\ UNCHANGED << probing, addrs, others, binding, f, environ, cfgFile, stopHangs, inFlight, closeExpired,
                    stopExpired, ctx, err, trigger, cfg, hookCfg, startCalls,
                    startErr, sigs, sigCount, serveErr, transport, closeCalls,
                    stopCalls, runtimeErr, instanceErr, result, logged,
                    handler, consumed, handleCalls, dispatchErrs >>

\* the receive handler built by New passes an incoming event to the function
DeliverEvent ==
    /\ binding = "cloudevents"
    /\ pc["main"] = "created"
    /\ consumed < MaxMsgs
    /\ consumed' = consumed + 1
    /\ handleCalls' = handleCalls + 1
    /\ UNCHANGED << probing, addrs, others, binding, f, environ, cfgFile, stopHangs, inFlight, closeExpired,
                    stopExpired, ctx, err, trigger, cfg, hookCfg, startCalls,
                    startErr, sigs, sigCount, serveErr, transport, closeCalls,
                    stopCalls, runtimeErr, instanceErr, result, logged, pc,
                    handler, resolved, receiver, dispatchErrs >>

\* kafka New(f): stores f, looks at nothing
NewKafka ==
    /\ binding = "kafka"
    /\ pc["main"] = "new"
    /\ pc' = [pc EXCEPT !["main"] = "created"]
    /\ resolved' = "unchecked"
    /\ UNCHANGED << probing, addrs, others, binding, f, environ, cfgFile, stopHangs, inFlight, closeExpired,
                    stopExpired, ctx, err, trigger, cfg, hookCfg, startCalls,
                    startErr, sigs, sigCount, serveErr, transport, closeCalls,
                    stopCalls, runtimeErr, instanceErr, result, logged,
                    handler, receiver, consumed, handleCalls, dispatchErrs >>

\* getHandlerType(s.f): "raw" when f itself has a raw Handle
getHandlerType(hd) ==
    IF TypeSwitch(MethodOfF(hd), rawInterfaces) # 0 THEN "raw" ELSE "cloudevents"

\* invokeCloudEventHandler / handleRawMessage: the value dispatched on is
\* dh.Handler for a DefaultHandler, f otherwise
Target(hd) == IF hd.kind = "instance" THEN MethodOfF(hd) ELSE MethodOfWrapped(hd)

\* the interface one message is dispatched through, "unsupported" for the
\* default case of the type switch
dispatchKafka(hd) ==
    LET ifaces == IF getHandlerType(hd) = "cloudevents"
                  THEN kafkaCEInterfaces ELSE rawInterfaces
        i == TypeSwitch(Target(hd), ifaces)
    IN  IF i = 0 THEN "unsupported" ELSE ifaces[i].name

\* errors a Handle may return, and the error of the default case
HandleErrors == {"ErrHandle"}
Unsupported == "unsupported handler signature"

\* one round of the consume loop: ReadMessage, then dispatch; an error of
\* the dispatch or of the handler is logged and the loop goes on
ConsumeMsg ==
    /\ binding = "kafka"
    /\ pc["serve"] = "running"
    /\ ~ctxDone
    /\ transport = "open"
    /\ consumed < MaxMsgs
    /\ consumed' = consumed + 1
    /\ LET d == dispatchKafka(handler)
       IN  IF d = "unsupported"
           THEN /\ dispatchErrs' = dispatchErrs + 1
                /\ logged' = logged \cup {Unsupported}
                /\ UNCHANGED << handleCalls, receiver >>
           ELSE /\ handleCalls' = handleCalls + 1
                /\ receiver' = d
                /\ \E e \in {Nil} \cup HandleErrors :
                      /\ e # Nil => handler.ret \in {"err", "evterr"}
                      /\ logged' = IF e # Nil THEN logged \cup {e} ELSE logged
                /\ UNCHANGED dispatchErrs
    /\ UNCHANGED << probing, addrs, others, binding, f, environ, cfgFile, stopHangs, inFlight, closeExpired,
                    stopExpired, ctx, err, trigger, cfg, hookCfg, startCalls,
                    startErr, sigs, sigCount, serveErr, transport, closeCalls,
                    stopCalls, runtimeErr, instanceErr, result, pc,
                    handler, resolved >>

\* construction and dispatch for every handler value
DispatchInit ==
    /\ binding \in {"cloudevents", "kafka"}
    /\ f = {}
    /\ environ \in Environs
    /\ cfgFile = NoFile
    /\ stopHangs = FALSE
    /\ handler \in Handlers
    /\ pc = [g \in Goroutines \cup {"main"} |-> IF g = "main" THEN "new" ELSE "none"]
    /\ Fresh

DispatchNext ==
    \/ NewCloudEvents
    \/ DeliverEvent
    \/ NewKafka
    \/ NewReader
    \/ startInstance
    \/ handleSignals
    \/ GoServe
    \/ Select
    \/ CtxCancel
    \/ ConsumeMsg
    \/ consumeReturn
    \/ shutdown
    \/ CloseReturn
    \/ ShutdownReturn

DispatchSpec == DispatchInit /\ [][DispatchNext]_vars

\* ------------------------------- the consume loop, statement by statement
\* error of ReadMessage other than context.Canceled
\* what a message value is: a JSON-encoded CloudEvent, other JSON, other bytes
MsgValues == {"structured", "json", "bytes"}

\* the messages the topic delivers: any value, with or without a ce-type
\* header, offsets counting from 1 on partition 0 of topic "t"
Messages(n) ==
    { [value |-> v, ceType |-> c, topic |-> "t", partition |-> 0, offset |-> n] :
         v \in MsgValues, c \in BOOLEAN }

\* fmt's %d for the small numbers used here
Itoa(n) == << "0", "1", "2", "3", "4", "5", "6", "7", "8", "9" >>[n + 1]

\* json.Unmarshal(msg.Value, &ce) returns nil
Unmarshal(value) == value = "structured"

\* variant: the ce-type header is looked at before the value is unmarshalled
handleCloudEventBinaryFirst(m) ==
    IF m.ceType
    THEN [mode |-> "binary", type |-> << "ce-type" >>, source |-> << "ce-source" >>,
          id |-> << "ce-id" >>]
    ELSE IF Unmarshal(m.value)
    THEN [mode |-> "structured", type |-> << "value.type" >>,
          source |-> << "value.source" >>, id |-> << "value.id" >>]
    ELSE [mode |-> "wrapped", type |-> << "kafka.message" >>,
          source |-> << "kafka://", m.topic >>,
          id |-> << m.topic, "-", Itoa(m.partition), "-", Itoa(m.offset) >>]

\* handleCloudEvent: the event handed to invokeCloudEventHandler.  Structured
\* mode when the value unmarshals, else binary mode when a ce-type header is
\* present (attributes are the headers' values), else a generated event.
handleCloudEvent(m) ==
    IF Unmarshal(m.value)
    THEN [mode |-> "structured", type |-> << "value.type" >>,
          source |-> << "value.source" >>, id |-> << "value.id" >>]
    ELSE IF m.ceType
    THEN [mode |-> "binary", type |-> << "ce-type" >>, source |-> << "ce-source" >>,
          id |-> << "ce-id" >>]
    ELSE [mode |-> "wrapped", type |-> << "kafka.message" >>,
          source |-> << "kafka://", m.topic >>,
          id |-> << m.topic, "-", Itoa(m.partition), "-", Itoa(m.offset) >>]

ReadErrors == {"ErrRead"}

\* msg, err := s.reader.ReadMessage(ctx) returns a message: it is now held
\* by the consume goroutine
ReadMessage ==
    /\ binding = "kafka"
    /\ pc["serve"] = "running"
    /\ ~ctxDone
    /\ transport = "open"
    /\ consumed < MaxMsgs
    /\ consumed' = consumed + 1
    /\ msg' \in Messages(consumed + 1)
    /\ UNCHANGED << process, group, lastEvent, closedReads >>
    /\ pc' = [pc EXCEPT !["serve"] = "read"]
    /\ UNCHANGED << probing, addrs, binding, f, environ, cfgFile, stopHangs, inFlight, closeExpired,
                    stopExpired, ctx, err, trigger, cfg, hookCfg, startCalls,
                    startErr, sigs, sigCount, serveErr, transport, closeCalls,
                    stopCalls, runtimeErr, instanceErr, result, logged,
                    handler, resolved, receiver, handleCalls, dispatchErrs >>

\* reads made on a closed reader that are followed
MaxClosedReads == 2

\* ReadMessage fails: a broker error, or io.EOF once the reader has been
\* closed.  The error is not context.Canceled, so it is logged and the loop
\* continues at its head.
ReadError ==
    /\ binding = "kafka"
    /\ pc["serve"] = "running"
    /\ ~ctxDone
    /\ IF transport = "closed"
       THEN /\ closedReads < MaxClosedReads
            /\ closedReads' = closedReads + 1
            /\ logged' = logged \cup {"EOF"}
       ELSE /\ \E e \in ReadErrors : logged' = logged \cup {e}
            /\ UNCHANGED closedReads
    /\ UNCHANGED << process, group, msg, lastEvent >>
    /\ UNCHANGED << probing, addrs, binding, f, environ, cfgFile, stopHangs, inFlight, closeExpired,
                    stopExpired, ctx, err, trigger, cfg, hookCfg, startCalls,
                    startErr, sigs, sigCount, serveErr, transport, closeCalls,
                    stopCalls, runtimeErr, instanceErr, result, pc,
                    handler, resolved, receiver, consumed, handleCalls,
                    dispatchErrs >>

\* handleCloudEvent / handleRawMessage up to the call of Handle: the default
\* case of the type switch logs and goes back to the head of the loop
Dispatch ==
    /\ pc["serve"] = "read"
    /\ lastEvent' = IF getHandlerType(handler) = "cloudevents"
                    THEN handleCloudEvent(msg) ELSE lastEvent
    /\ UNCHANGED << process, group, msg, closedReads >>
    /\ LET d == dispatchKafka(handler)
       IN  IF d = "unsupported"
           THEN /\ dispatchErrs' = dispatchErrs + 1
                /\ logged' = logged \cup {Unsupported}
                /\ pc' = [pc EXCEPT !["serve"] = "running"]
                /\ UNCHANGED << handleCalls, receiver >>
           ELSE /\ handleCalls' = handleCalls + 1
                /\ receiver' = d
                /\ pc' = [pc EXCEPT !["serve"] = "handling"]
                /\ UNCHANGED << dispatchErrs, logged >>
    /\ UNCHANGED << probing, addrs, binding, f, environ, cfgFile, stopHangs, inFlight, closeExpired,
                    stopExpired, ctx, err, trigger, cfg, hookCfg, startCalls,
                    startErr, sigs, sigCount, serveErr, transport, closeCalls,
                    stopCalls, runtimeErr, instanceErr, result,
                    handler, resolved, consumed >>

\* Handle returns; its error is logged and the loop goes on
HandleReturn ==
    /\ pc["serve"] = "handling"
    /\ \E e \in {Nil} \cup HandleErrors :
          /\ e # Nil => handler.ret \in {"err", "evterr"}
          /\ logged' = IF e # Nil THEN logged \cup {e} ELSE logged
    /\ pc' = [pc EXCEPT !["serve"] = "running"]
    /\ UNCHANGED << probing, addrs, others, binding, f, environ, cfgFile, stopHangs, inFlight, closeExpired,
                    stopExpired, ctx, err, trigger, cfg, hookCfg, startCalls,
                    startErr, sigs, sigCount, serveErr, transport, closeCalls,
                    stopCalls, runtimeErr, instanceErr, result,
                    handler, resolved, receiver, consumed, handleCalls,
                    dispatchErrs >>

\* an instance with Handle(context.Context, event.Event) error
CtxEvtErrHandler ==
    [kind |-> "instance", has |-> TRUE, ctx |-> TRUE, arg |-> "event", ret |-> "err"]

\* the Kafka Service around a supported handler, its loop taken step by step
ConsumeInit ==
    /\ binding = "kafka"
    /\ f \in SUBSET {"Stopper"}
    /\ environ \in Environs
    /\ cfgFile = NoFile
    /\ stopHangs = FALSE
    /\ handler = CtxEvtErrHandler
    /\ Created

ConsumeNext ==
    \/ NewReader
    \/ startInstance
    \/ handleSignals
    \/ GoServe
    \/ Select
    \/ CtxCancel
    \/ SignalDeliver
    \/ SignalRecv
    \/ ReadMessage
    \/ ReadError
    \/ Dispatch
    \/ HandleReturn
    \/ consumeReturn
    \/ shutdown
    \/ CloseReturn
    \/ StopCall
    \/ StopReturn
    \/ ShutdownReturn

ConsumeSpec == ConsumeInit /\ [][ConsumeNext]_vars

\* ------------------------------------------------------ health probes
\* probe requests sent to one path during one run
MaxProbes == 2

\* HTTP statuses: 200 is what net/http sends when the handler only writes
StatusOK == 200
StatusInternalServerError == 500
StatusServiceUnavailable == 503

ProbeRoles == {"ReadinessReporter", "LivenessReporter"}

ProbeRole(path) == IF path = "readiness" THEN "ReadinessReporter" ELSE "LivenessReporter"

ProbeErrors == {"ErrProbe"}

\* what a Ready / Alive hook does: return (val, err), or panic
HookOutcomes ==
    { o \in [val : BOOLEAN, err : {Nil} \cup ProbeErrors, panic : BOOLEAN] :
         o.panic => (~o.val /\ o.err = Nil) }

\* placeholder for a probe that calls no hook
NoOutcome == [val |-> FALSE, err |-> Nil, panic |-> FALSE]

\* variant: a handler without the readiness role is reported unavailable
ReadyAbsentUnavailable(b, impl, o) ==
    IF impl /\ o.err # Nil
    THEN [status |-> StatusInternalServerError,
          body |-> IF b = "http" THEN << "error", "checking", "readiness:", o.err >>
                   ELSE << "error", "checking", "readiness.", o.err >>]
    ELSE IF ~impl \/ ~o.val
    THEN [status |-> StatusServiceUnavailable,
          body |-> IF b = "http" THEN << "function", "not", "yet", "ready" >>
                   ELSE << "function", "not", "yet", "available" >>]
    ELSE [status |-> StatusOK, body |-> << "READY" >>]

\* Service.Ready, body as its words: part_006 for "http", src/http/service.go
\* otherwise
Ready(b, impl, o) ==
    IF impl /\ o.err # Nil
    THEN [status |-> StatusInternalServerError,
          body |-> IF b = "http" THEN << "error", "checking", "readiness:", o.err >>
                   ELSE << "error", "checking", "readiness.", o.err >>]
    ELSE IF impl /\ ~o.val
    THEN [status |-> StatusServiceUnavailable,
          body |-> IF b = "http" THEN << "function", "not", "yet", "ready" >>
                   ELSE << "function", "not", "yet", "available" >>]
    ELSE [status |-> StatusOK, body |-> << "READY" >>]

\* variant: a hook error is answered like a hook saying "not alive"
AliveErrorAsNotAlive(b, impl, o) ==
    IF impl /\ (o.err # Nil \/ ~o.val)
    THEN [status |-> StatusServiceUnavailable,
          body |-> IF b = "http" THEN << "function", "not", "alive" >>
                   ELSE << "function", "not", "ready" >>]
    ELSE [status |-> StatusOK, body |-> << "ALIVE" >>]

\* Service.Alive
Alive(b, impl, o) ==
    IF impl /\ o.err # Nil
    THEN [status |-> StatusInternalServerError,
          body |-> IF b = "http" THEN << "error", "checking", "liveness:", o.err >>
                   ELSE << "error", "checking", "liveness.", o.err >>]
    ELSE IF impl /\ ~o.val
    THEN [status |-> StatusServiceUnavailable,
          body |-> IF b = "http" THEN << "function", "not", "alive" >>
                   ELSE << "function", "not", "ready" >>]
    ELSE [status |-> StatusOK, body |-> << "ALIVE" >>]

\* the mux routes /health/readiness to Ready and /health/liveness to Alive
ProbeAnswer(b, path, impl, o) ==
    IF path = "readiness" THEN Ready(b, impl, o) ELSE Alive(b, impl, o)

\* a GET of /health/readiness or /health/liveness while the server accepts
\* requests.  Nothing in the mux recovers a panic of the hook: net/http's
\* connection goroutine does, logs it and drops the connection, so the
\* caller gets no response (status 0).
Probe ==
    /\ binding \in HttpBindings
    /\ pc["serve"] = "running"
    /\ transport = "open"
    /\ \E path \in ProbePaths, o \in HookOutcomes :
          LET impl == Implements(f, ProbeRole(path))
              r == ProbeAnswer(binding, path, impl, o)
          IN  /\ probes[path] < MaxProbes
              /\ ~impl => o = NoOutcome
              /\ probes' = [probes EXCEPT ![path] = @ + 1]
              /\ hookCalls' = IF impl THEN [hookCalls EXCEPT ![path] = @ + 1]
                              ELSE hookCalls
              /\ lastProbe' =
                    IF o.panic
                    THEN [path |-> path, called |-> TRUE, val |-> FALSE, err |-> Nil,
                          panic |-> TRUE, status |-> 0, body |-> <<>>]
                    ELSE [path |-> path, called |-> impl, val |-> o.val, err |-> o.err,
                          panic |-> FALSE, status |-> r.status, body |-> r.body]
              /\ logged' = IF path = "liveness" /\ o.err # Nil
                           THEN logged \cup {o.err} ELSE logged
    /\ UNCHANGED << static, timing, dispatch, addrs, others, ctx, pc, err, trigger, cfg,
                    hookCfg, startCalls, startErr, sigs, sigCount, serveErr,
                    transport, closeCalls, stopCalls, runtimeErr, instanceErr,
                    result >>

\* the Kafka Service has no http.Server and no probe path: a probe request
\* finds nothing listening and no hook is called
ProbeNoServer ==
    /\ binding = "kafka"
    /\ pc["serve"] = "running"
    /\ \E path \in ProbePaths :
          /\ probes[path] < MaxProbes
          /\ probes' = [probes EXCEPT ![path] = @ + 1]
          /\ lastProbe' = [path |-> path, called |-> FALSE, val |-> FALSE, err |-> Nil,
                           panic |-> FALSE, status |-> 0, body |-> <<>>]
    /\ UNCHANGED hookCalls
    /\ UNCHANGED << static, timing, dispatch, addrs, others, ctx, pc, err, trigger, cfg,
                    hookCfg, startCalls, startErr, sigs, sigCount, serveErr,
                    transport, closeCalls, stopCalls, runtimeErr, instanceErr,
                    result, logged >>

\* the three Services around handlers with any of the probe roles
ProbeInit ==
    /\ binding \in HttpBindings \cup {"kafka"}
    /\ f \in SUBSET ProbeRoles
    /\ environ \in Environs
    /\ cfgFile = NoFile
    /\ stopHangs = FALSE
    /\ handler = NoHandle
    /\ Created

ProbeNext ==
    \/ Listen
    \/ NewReader
    \/ startInstance
    \/ startInstanceEnv
    \/ handleSignals
    \/ GoServe
    \/ handleRequests
    \/ Select
    \/ CtxCancel
    \/ ServeFail
    \/ ServeClosed
    \/ consumeReturn
    \/ Probe
    \/ ProbeNoServer
    \/ shutdown
    \/ CloseReturn
    \/ ShutdownReturn

ProbeSpec == ProbeInit /\ [][ProbeNext]_vars

\* ------------------------------------------------- signals of any kind
\* signal.Notify(sigs) names no signal, so every signal the process gets is
\* relayed: SIGHUP stands for those that are neither SIGINT, SIGTERM nor SIGURG
OtherSignals == {"SIGHUP"}

SignalDeliverOther ==
    /\ pc["signals"] # "none"
    /\ pc["main"] # "returned"
    /\ sigCount < MaxSignals
    /\ \E sig \in OtherSignals :
          sigs' = IF Len(sigs) < SigsCap THEN Append(sigs, sig) ELSE sigs
    /\ sigCount' = sigCount + 1
    /\ UNCHANGED << static, probing, addrs, others, timing, dispatch, pc, ctx, err, trigger, cfg, hookCfg, startCalls,
                    startErr, serveErr, transport, closeCalls, stopCalls,
                    runtimeErr, instanceErr, result, logged >>

\* the two HTTP Services, any signal
SignalInit ==
    /\ binding \in HttpBindings
    /\ f = {}
    /\ environ \in Environs
    /\ cfgFile = NoFile
    /\ stopHangs = FALSE
    /\ handler = NoHandle
    /\ Created

SignalNext ==
    \/ Listen
    \/ startInstance
    \/ startInstanceEnv
    \/ handleSignals
    \/ GoServe
    \/ handleRequests
    \/ Select
    \/ CtxCancel
    \/ SignalDeliver
    \/ SignalDeliverOther
    \/ SignalRecv
    \/ ServeFail
    \/ ServeClosed
    \/ shutdown
    \/ CloseReturn
    \/ ShutdownReturn

SignalSpec == SignalInit /\ [][SignalNext]_vars

\* ------------------------------------------- CloudEvents: the two listeners
\* src/cloudevents/instance.go.  An address string is its words:
\* "127.0.0.1:8080" is << "127.0.0.1", ":", "8080" >>.
DefaultServicePort == << "8080" >>
DefaultListenAddress == << "127.0.0.1", ":", "8080" >>

\* os.Getenv: "" for a variable that is not set
Getenv(env, name) == IF << name >> \in DOMAIN env THEN env[<< name >>] ELSE <<>>

\* variant: the legacy ADDRESS and PORT are looked at before LISTEN_ADDRESS
listenAddressLegacyFirst(env) ==
    LET la      == Getenv(env, "LISTEN_ADDRESS")
        address == Getenv(env, "ADDRESS")
        p       == Getenv(env, "PORT")
    IN  IF address # <<>> \/ p # <<>>
        THEN (IF address # <<>> THEN address ELSE << "127.0.0.1" >>)
             \o << ":" >>
             \o (IF p # <<>> THEN p ELSE << "8080" >>)
        ELSE IF la # <<>> THEN la
        ELSE DefaultListenAddress

\* listenAddress(): LISTEN_ADDRESS, else the legacy ADDRESS and PORT with
\* their defaults, else DefaultListenAddress
listenAddress(env) ==
    LET la      == Getenv(env, "LISTEN_ADDRESS")
        address == Getenv(env, "ADDRESS")
        p       == Getenv(env, "PORT")
    IN  IF la # <<>> THEN la
        ELSE IF address # <<>> \/ p # <<>>
        THEN (IF address # <<>> THEN address ELSE << "127.0.0.1" >>)
             \o << ":" >>
             \o (IF p # <<>> THEN p ELSE << "8080" >>)
        ELSE DefaultListenAddress

\* port(): PORT, else DefaultServicePort
port(env) == IF Getenv(env, "PORT") = <<>> THEN DefaultServicePort ELSE Getenv(env, "PORT")

\* Server.Addr as New sets it: ":" + port()
ServerAddr(env) == << ":" >> \o port(env)

\* net.Listen("tcp", a): the address bound.  An empty host is the wildcard,
\* an empty or "0" port is replaced by a free port chosen by the system.
Bind(a) ==
    LET i == CHOOSE j \in 1..Len(a) : a[j] = ":"
        pt == IF i = Len(a) THEN "" ELSE a[i + 1]
    IN  [host |-> IF i = 1 THEN "" ELSE a[1],
         port |-> IF pt \in {"", "0"} THEN "ephemeral" ELSE pt]

\* s.listener, err = net.Listen("tcp", listenAddress()); return on error
ListenCE ==
    /\ pc["main"] = "created"
    /\ binding = "cloudevents"
    /\ \E ok \in BOOLEAN :
          IF ok
          THEN /\ listenerAddr' = Bind(listenAddress(environ))
               /\ pc' = [pc EXCEPT !["main"] = "listening"]
               /\ UNCHANGED << err, result >>
          ELSE /\ err' = "ErrListen"
               /\ result' = "ErrListen"
               /\ pc' = [pc EXCEPT !["main"] = "returned"]
               /\ UNCHANGED listenerAddr
    /\ UNCHANGED << static, probing, others, servedAddr, timing, dispatch, ctx, trigger, cfg,
                    hookCfg, startCalls, startErr, sigs, sigCount, serveErr,
                    transport, closeCalls, stopCalls, runtimeErr, instanceErr,
                    logged >>

\* go func() { if err := s.Server.ListenAndServe(); ... }()
GoListenAndServe ==
    /\ binding = "cloudevents"
    /\ pc["main"] = "signalsInstalled"
    /\ pc' = [pc EXCEPT !["main"] = "select", !["serve"] = "binding"]
    /\ UNCHANGED << static, probing, addrs, others, timing, dispatch, ctx, err, trigger, cfg,
                    hookCfg, startCalls, startErr, sigs, sigCount, serveErr,
                    transport, closeCalls, stopCalls, runtimeErr, instanceErr,
                    result, logged >>

\* s.Server.ListenAndServe(): after Shutdown it returns ErrServerClosed at
\* once; otherwise it opens a listener of its own on Server.Addr (s.listener
\* is not handed to it) and serves the mux there.  The system refuses a second
\* socket on the very address s.listener holds; whether it refuses the
\* wildcard address while s.listener holds one host of the same port depends
\* on the platform, so both outcomes are kept.  A failure is logged and sent
\* on s.stop.
ListenAndServe ==
    /\ binding = "cloudevents"
    /\ pc["serve"] = "binding"
    /\ IF transport = "closed"
       THEN /\ pc' = [pc EXCEPT !["serve"] = "done"]
            /\ UNCHANGED << servedAddr, transport, serveErr, err, trigger, logged >>
       ELSE \E ok \in BOOLEAN :
               IF ok
               THEN /\ Bind(ServerAddr(environ)) # listenerAddr
                    /\ servedAddr' = Bind(ServerAddr(environ))
                    /\ transport' = "open"
                    /\ pc' = [pc EXCEPT !["serve"] = "running"]
                    /\ UNCHANGED << serveErr, err, trigger, logged >>
               ELSE /\ serveErr' = "ErrListen"
                    /\ Send("serve", "ErrListen", logged \cup {"ErrListen"})
                    /\ UNCHANGED << servedAddr, transport >>
    /\ UNCHANGED << static, probing, others, listenerAddr, timing, dispatch, ctx, cfg,
                    hookCfg, startCalls, startErr, sigs, sigCount, closeCalls,
                    stopCalls, runtimeErr, instanceErr, result >>

\* a GET of a health path sent to Service.Addr(), the address of s.listener,
\* while the server is serving.  The connection reaches the socket bound to
\* that address; it is answered by the mux when that socket is the one the
\* server accepts from, and otherwise stays in the backlog of s.listener,
\* which nothing accepts from: no hook runs and no response comes (status 0).
RequestAddr ==
    /\ binding = "cloudevents"
    /\ listenerAddr # NoAddr
    /\ pc["serve"] = "running"
    /\ transport = "open"
    /\ \E path \in ProbePaths, o \in HookOutcomes :
          LET accepted == servedAddr = listenerAddr
              impl == accepted /\ Implements(f, ProbeRole(path))
              r == ProbeAnswer(binding, path, impl, o)
          IN  /\ probes[path] < MaxProbes
              /\ ~impl => o = NoOutcome
              /\ ~o.panic
              /\ probes' = [probes EXCEPT ![path] = @ + 1]
              /\ hookCalls' = IF impl THEN [hookCalls EXCEPT ![path] = @ + 1]
                              ELSE hookCalls
              /\ lastProbe' =
                    [path |-> path, called |-> impl, val |-> o.val, err |-> o.err,
                     panic |-> FALSE,
                     status |-> IF accepted THEN r.status ELSE 0,
                     body |-> IF accepted THEN r.body ELSE <<>>]
    /\ UNCHANGED << static, timing, dispatch, addrs, others, ctx, pc, err, trigger, cfg,
                    hookCfg, startCalls, startErr, sigs, sigCount, serveErr,
                    transport, closeCalls, stopCalls, runtimeErr, instanceErr,
                    result, logged >>

\* environments of the CloudEvents Service
AddrEnvOf(la, p) ==
    [k \in (IF la = <<>> THEN {} ELSE {<< "LISTEN_ADDRESS" >>})
           \cup (IF p = <<>> THEN {} ELSE {<< "PORT" >>})
        |-> IF k = << "LISTEN_ADDRESS" >> THEN la ELSE p]

AddrEnvirons ==
    { AddrEnvOf(la, p) :
        la \in {<<>>, << "127.0.0.1", ":" >>, << ":", "9090" >>},
        p \in {<<>>, << "9090" >>} }

\* a CloudEvents Service around a handler with any of the probe roles
AddrInit ==
    /\ binding = "cloudevents"
    /\ f \in SUBSET ProbeRoles
    /\ environ \in AddrEnvirons
    /\ cfgFile = NoFile
    /\ stopHangs = FALSE
    /\ handler = NoHandle
    /\ Created

AddrNext ==
    \/ ListenCE
    \/ startInstance
    \/ handleSignals
    \/ GoListenAndServe
    \/ ListenAndServe
    \/ RequestAddr
    \/ Select
    \/ CtxCancel
    \/ ServeFail
    \/ ServeClosed
    \/ shutdown
    \/ CloseReturn
    \/ ShutdownReturn

AddrSpec == AddrInit /\ [][AddrNext]_vars


\* ------------------------------------------- the static file in each Service
\* a ./cfg as `func` writes it: quoted values, one entry padded with spaces;
\* neither key is a variable of the environment
StaticFile ==
    << <<"C", "=", QT, "v", QT>>,
       <<SP, "D", SP, "=", SP, QT, "w", QT, SP>> >>

\* the three Services around a Starter, started in a directory holding ./cfg
StaticInit ==
    /\ binding \in Bindings \cup {"httpenv"}
    /\ f \in {{"Starter"}, {"Starter", "Stopper"}}
    /\ environ \in Environs
    /\ cfgFile = StaticFile
    /\ stopHangs = FALSE
    /\ handler = NoHandle
    /\ Created

StaticNext ==
    \/ Listen
    \/ NewReader
    \/ startInstance
    \/ startInstanceEnv
    \/ handleSignals
    \/ GoServe
    \/ handleRequests
    \/ Select
    \/ CtxCancel
    \/ StartCall
    \/ StartReturn
    \/ SignalDeliver
    \/ SignalRecv
    \/ ServeFail
    \/ ServeClosed
    \/ consumeReturn
    \/ shutdown
    \/ CloseReturn
    \/ StopCall
    \/ StopReturn
    \/ ShutdownReturn

StaticSpec == StaticInit /\ [][StaticNext]_vars

\* ----------------------------------------------------------------- main
\* variant: main ignores what Start returned
mainExitZero ==
    /\ pc["main"] = "returned"
    /\ exitCode' = 0
    /\ pc' = [pc EXCEPT !["main"] = "exited"]
    /\ UNCHANGED << static, probing, addrs, decoding, group, addr, timing, dispatch, ctx,
                    err, trigger, cfg, hookCfg, startCalls, startErr, sigs,
                    sigCount, serveErr, transport, closeCalls, stopCalls,
                    runtimeErr, instanceErr, result, logged >>

\* main: if err := Start(f); err != nil { Fprintln(os.Stderr, err); os.Exit(1) }
\* and otherwise main returns, which ends the process with status 0
mainExit ==
    /\ pc["main"] = "returned"
    /\ exitCode' = IF result # Nil THEN 1 ELSE 0
    /\ pc' = [pc EXCEPT !["main"] = "exited"]
    /\ UNCHANGED << static, probing, addrs, decoding, group, addr, timing, dispatch, ctx,
                    err, trigger, cfg, hookCfg, startCalls, startErr, sigs,
                    sigCount, serveErr, transport, closeCalls, stopCalls,
                    runtimeErr, instanceErr, result, logged >>

\* the process: main around Start
ExitNext ==
    \/ Listen
    \/ NewReader
    \/ startInstance
    \/ handleSignals
    \/ GoServe
    \/ Select
    \/ CtxCancel
    \/ StartCall
    \/ StartReturn
    \/ SignalDeliver
    \/ SignalRecv
    \/ ServeFail
    \/ ServeClosed
    \/ consumeReturn
    \/ shutdown
    \/ CloseReturn
    \/ StopCall
    \/ StopReturn
    \/ ShutdownReturn
    \/ mainExit

ExitSpec == Init /\ [][ExitNext]_vars

\* -------------------------------------------------------- listenAddress
\* environments over LISTEN_ADDRESS, ADDRESS and PORT: each one unset, set
\* to the empty string, or set to a value
ListenValues ==
    [la : {<< "unset" >>, <<>>, << "127.0.0.1", ":" >>, << ":", "9090" >>, << "[::1]", ":", "80" >>},
     address : {<< "unset" >>, <<>>, << "0.0.0.0" >>, << "localhost" >>},
     p : {<< "unset" >>, <<>>, << "9090" >>, << "0" >>}]

ListenEnvOf(v) ==
    [k \in (IF v.la = << "unset" >> THEN {} ELSE {<< "LISTEN_ADDRESS" >>})
           \cup (IF v.address = << "unset" >> THEN {} ELSE {<< "ADDRESS" >>})
           \cup (IF v.p = << "unset" >> THEN {} ELSE {<< "PORT" >>})
        |-> IF k = << "LISTEN_ADDRESS" >> THEN v.la
            ELSE IF k = << "ADDRESS" >> THEN v.address ELSE v.p]

ListenEnvirons == { ListenEnvOf(v) : v \in ListenValues }

ListenAddrInit ==
    /\ binding = "http"
    /\ f = {}
    /\ environ \in ListenEnvirons
    /\ cfgFile = NoFile
    /\ stopHangs = FALSE
    /\ handler = NoHandle
    /\ Created

\* addr := listenAddress() at the head of Start; the legacy variables are
\* warned about when they are the ones used
listenAddressCall ==
    /\ pc["main"] = "created"
    /\ addr' = listenAddress(environ)
    /\ logged' = logged
                 \cup (IF Getenv(environ, "LISTEN_ADDRESS") = <<>>
                          /\ Getenv(environ, "ADDRESS") # <<>>
                       THEN {"ADDRESS is deprecated"} ELSE {})
                 \cup (IF Getenv(environ, "LISTEN_ADDRESS") = <<>>
                          /\ Getenv(environ, "PORT") # <<>>
                       THEN {"PORT is deprecated"} ELSE {})
    /\ pc' = [pc EXCEPT !["main"] = "addressed"]
    /\ UNCHANGED << static, probing, addrs, decoding, group, exitCode, timing,
                    dispatch, ctx, err, trigger, cfg, hookCfg, startCalls,
                    startErr, sigs, sigCount, serveErr, transport, closeCalls,
                    stopCalls, runtimeErr, instanceErr, result >>

ListenAddrNext == listenAddressCall

ListenAddrSpec == ListenAddrInit /\ [][ListenAddrNext]_vars

\* ------------------------------------------- sarama ConsumerGroupHandler
\* src/unnamed/part_010.  Sessions follow one another on one handler value:
\* Setup, ConsumeClaim, Cleanup, and after a rebalance Setup again.
\* sessions started on one handler
MaxSessions == 2

\* messages of one claim
MaxClaim == 3

\* the claim's messages, by offset, in the order of the partition
ClaimOf(n) == [i \in 1..n |-> i]

\* Setup: close(h.ready); return nil.  Closing a channel that is already
\* closed is a run-time panic, which ends the process.
Setup ==
    /\ cgPc = "idle"
    /\ setupCalls < MaxSessions
    /\ setupCalls' = setupCalls + 1
    /\ IF ready = "closed"
       THEN /\ setupPanics' = setupPanics + 1
            /\ cgPc' = "panicked"
            /\ UNCHANGED ready
       ELSE /\ ready' = "closed"
            /\ cgPc' = "setup"
            /\ UNCHANGED setupPanics
    /\ UNCHANGED << sessionDone, claimMessages, claimClosed, current, delivered,
                    results, marked >>
    /\ UNCHANGED << static, probing, addrs, process, decoding, timing, dispatch, ctx, pc,
                    err, trigger, cfg, hookCfg, startCalls, startErr, sigs,
                    sigCount, serveErr, transport, closeCalls, stopCalls,
                    runtimeErr, instanceErr, result, logged >>

\* sarama calls ConsumeClaim with the claim of a partition
ConsumeClaimCall ==
    /\ cgPc = "setup"
    /\ \E n \in 0..MaxClaim : claimMessages' = ClaimOf(n)
    /\ delivered' = <<>>
    /\ results' = <<>>
    /\ cgPc' = "select"
    /\ UNCHANGED << ready, setupCalls, setupPanics, sessionDone, claimClosed,
                    current, marked >>
    /\ UNCHANGED << static, probing, addrs, process, decoding, timing, dispatch, ctx, pc,
                    err, trigger, cfg, hookCfg, startCalls, startErr, sigs,
                    sigCount, serveErr, transport, closeCalls, stopCalls,
                    runtimeErr, instanceErr, result, logged >>

\* case message := <-claim.Messages() with a message: h.handler.Handle is
\* called with it.  The select may take this case although the session's
\* context is done as well.
ClaimReceive ==
    /\ cgPc = "select"
    /\ claimMessages # <<>>
    /\ current' = Head(claimMessages)
    /\ claimMessages' = Tail(claimMessages)
    /\ delivered' = Append(delivered, Head(claimMessages))
    /\ cgPc' = "handling"
    /\ UNCHANGED << ready, setupCalls, setupPanics, sessionDone, claimClosed,
                    results, marked >>
    /\ UNCHANGED << static, probing, addrs, process, decoding, timing, dispatch, ctx, pc,
                    err, trigger, cfg, hookCfg, startCalls, startErr, sigs,
                    sigCount, serveErr, transport, closeCalls, stopCalls,
                    runtimeErr, instanceErr, result, logged >>

\* variant: the message is marked whatever the handler returned
ClaimHandleReturnMarkAll ==
    /\ cgPc = "handling"
    /\ \E e \in {Nil} \cup HandleErrors :
          /\ results' = Append(results, e)
          /\ marked' = marked \cup {current}
    /\ current' = 0
    /\ cgPc' = "select"
    /\ UNCHANGED << ready, setupCalls, setupPanics, sessionDone, claimMessages,
                    claimClosed, delivered >>
    /\ UNCHANGED << static, probing, addrs, process, decoding, timing, dispatch, ctx, pc,
                    err, trigger, cfg, hookCfg, startCalls, startErr, sigs,
                    sigCount, serveErr, transport, closeCalls, stopCalls,
                    runtimeErr, instanceErr, result, logged >>

\* Handle returns: on an error `continue` (nothing is logged, nothing is
\* marked) ; on nil session.MarkMessage(message, "")
ClaimHandleReturn ==
    /\ cgPc = "handling"
    /\ \E e \in {Nil} \cup HandleErrors :
          /\ results' = Append(results, e)
          /\ marked' = IF e = Nil THEN marked \cup {current} ELSE marked
    /\ current' = 0
    /\ cgPc' = "select"
    /\ UNCHANGED << ready, setupCalls, setupPanics, sessionDone, claimMessages,
                    claimClosed, delivered >>
    /\ UNCHANGED << static, probing, addrs, process, decoding, timing, dispatch, ctx, pc,
                    err, trigger, cfg, hookCfg, startCalls, startErr, sigs,
                    sigCount, serveErr, transport, closeCalls, stopCalls,
                    runtimeErr, instanceErr, result, logged >>

\* the receive yields nil (the channel is closed and drained): return nil
ClaimNil ==
    /\ cgPc = "select"
    /\ claimMessages = <<>>
    /\ claimClosed
    /\ cgPc' = "returned"
    /\ UNCHANGED << ready, setupCalls, setupPanics, sessionDone, claimMessages,
                    claimClosed, current, delivered, results, marked >>
    /\ UNCHANGED << static, probing, addrs, process, decoding, timing, dispatch, ctx, pc,
                    err, trigger, cfg, hookCfg, startCalls, startErr, sigs,
                    sigCount, serveErr, transport, closeCalls, stopCalls,
                    runtimeErr, instanceErr, result, logged >>

\* case <-session.Context().Done(): return nil
ClaimDone ==
    /\ cgPc = "select"
    /\ sessionDone
    /\ cgPc' = "returned"
    /\ UNCHANGED << ready, setupCalls, setupPanics, sessionDone, claimMessages,
                    claimClosed, current, delivered, results, marked >>
    /\ UNCHANGED << static, probing, addrs, process, decoding, timing, dispatch, ctx, pc,
                    err, trigger, cfg, hookCfg, startCalls, startErr, sigs,
                    sigCount, serveErr, transport, closeCalls, stopCalls,
                    runtimeErr, instanceErr, result, logged >>

\* the session's context is canceled (rebalance, shutdown)
SessionCancel ==
    /\ cgPc \in {"select", "handling"}
    /\ ~sessionDone
    /\ sessionDone' = TRUE
    /\ UNCHANGED << ready, setupCalls, setupPanics, claimMessages, claimClosed,
                    cgPc, current, delivered, results, marked >>
    /\ UNCHANGED << static, probing, addrs, process, decoding, timing, dispatch, ctx, pc,
                    err, trigger, cfg, hookCfg, startCalls, startErr, sigs,
                    sigCount, serveErr, transport, closeCalls, stopCalls,
                    runtimeErr, instanceErr, result, logged >>

\* sarama closes the claim's Messages channel
ClaimClose ==
    /\ cgPc \in {"select", "handling"}
    /\ ~claimClosed
    /\ claimClosed' = TRUE
    /\ UNCHANGED << ready, setupCalls, setupPanics, sessionDone, claimMessages,
                    cgPc, current, delivered, results, marked >>
    /\ UNCHANGED << static, probing, addrs, process, decoding, timing, dispatch, ctx, pc,
                    err, trigger, cfg, hookCfg, startCalls, startErr, sigs,
                    sigCount, serveErr, transport, closeCalls, stopCalls,
                    runtimeErr, instanceErr, result, logged >>

\* Cleanup: return nil ; the session is over and the next one may begin
Cleanup ==
    /\ cgPc = "returned"
    /\ cgPc' = "idle"
    /\ sessionDone' = FALSE
    /\ claimClosed' = FALSE
    /\ claimMessages' = <<>>
    /\ UNCHANGED << ready, setupCalls, setupPanics, current, delivered, results,
                    marked >>
    /\ UNCHANGED << static, probing, addrs, process, decoding, timing, dispatch, ctx, pc,
                    err, trigger, cfg, hookCfg, startCalls, startErr, sigs,
                    sigCount, serveErr, transport, closeCalls, stopCalls,
                    runtimeErr, instanceErr, result, logged >>

\* a ConsumerGroupHandler as NewConsumerGroupHandler returns it
ClaimInit ==
    /\ binding = "sarama"
    /\ f = {}
    /\ environ \in Environs
    /\ cfgFile = NoFile
    /\ stopHangs = FALSE
    /\ handler = NoHandle
    /\ Created

ClaimNext ==
    \/ Setup
    \/ ConsumeClaimCall
    \/ ClaimReceive
    \/ ClaimHandleReturn
    \/ ClaimNil
    \/ ClaimDone
    \/ SessionCancel
    \/ ClaimClose
    \/ Cleanup

ClaimSpec == ClaimInit /\ [][ClaimNext]_vars

\* ------------------------------------------------------------------ claims
\* Start has gone through shutdown and returned
ReturnedAfterShutdown == pc["main"] = "returned" /\ closeCalls > 0

\* the value that resolved the wait: what the winning sender sent, nil for
\* a context cancel
Cause ==
    IF trigger = "starter" THEN startErr
    ELSE IF trigger = "serve" THEN serveErr
    ELSE Nil

\* C1: for a Starter, Start invokes the Start hook exactly once (never twice,
\* and never zero times once the config build has succeeded), and the config
\* the hook receives maps every environment variable K to its value V.
C1_StartOnceWithEnv ==
    /\ [](startCalls <= 1)
    /\ [](startCalls = 1 =>
            \A k \in DOMAIN environ :
                k \in DOMAIN hookCfg /\ hookCfg[k] = environ[k])
    /\ [](  /\ Implements(f, "Starter")
            /\ pc["main"] \notin {"created", "listening"}
            /\ result \notin {"ErrListen", "ErrConfig"}
          => pc["starter"] # "none")
    /\ (pc["starter"] = "spawned" ~> startCalls = 1)

\* C1 witness: the hook has run for an environment of two variables, one of
\* which the static file also sets
C1_Witness ==
    /\ startCalls = 1
    /\ cfgFile # NoFile
    /\ Cardinality(DOMAIN environ) = 2
    /\ Cardinality(DOMAIN hookCfg) = 3

\* C2: the value Start returns after shutdown is the first non-nil error in
\* the order (triggering cause, Stop hook error, transport close error), nil
\* when all three are nil.
C2_FirstNonNil ==
    ReturnedAfterShutdown =>
        result = IF Cause # Nil THEN Cause
                 ELSE IF instanceErr # Nil THEN instanceErr
                 ELSE runtimeErr

\* C2 witness: Start returned the Stop hook error although close failed too
C2_Witness ==
    /\ ReturnedAfterShutdown
    /\ Cause = Nil
    /\ instanceErr # Nil
    /\ runtimeErr # Nil
    /\ result = instanceErr

\* C3: the Stop hook is invoked only after the transport close has been
\* called, whatever triggered the shutdown.
C3_StopAfterClose == stopCalls > 0 => closeCalls > 0

\* C3 witness: the Stop hook has been invoked in a shutdown caused by a
\* Start hook error
C3_Witness == stopCalls = 1 /\ trigger = "starter" /\ closeCalls = 1

\* Start has left its select and is shutting down or has returned from it
Stopping == pc["main"] \in {"shutdown", "closing", "closed", "stopping", "collapse"}

\* C4: a Start hook error e that is the first resolution of the stop channel
\* puts the service in Stopping, the transport close is called, and Start
\* returns e.
C4_StartErrorReturned ==
    trigger = "starter" =>
        /\ startErr # Nil
        /\ err = startErr
        /\ (Stopping \/ ReturnedAfterShutdown)
        /\ (pc["main"] # "shutdown" => closeCalls = 1)
        /\ (pc["main"] = "returned" => result = startErr)

\* C4 witness: Start returned the Start hook's error after closing the transport
C4_Witness ==
    /\ trigger = "starter"
    /\ pc["main"] = "returned"
    /\ result = "ErrStart"
    /\ closeCalls = 1

\* C5: for a Starter that is no Stopper, a SIGINT/SIGTERM that resolves the
\* wait resolves it with nil: the transport close is called, no Stop hook is
\* called, and Start returns nil when the close returns no error.
C5_SignalCleanStop ==
    (/\ Implements(f, "Starter")
     /\ ~Implements(f, "Stopper")
     /\ trigger = "signals")
    => /\ err = Nil
       /\ stopCalls = 0
       /\ (Stopping \/ ReturnedAfterShutdown)
       /\ (pc["main"] = "returned" =>
             /\ closeCalls = 1
             /\ (runtimeErr = Nil => result = Nil))

\* C5 witness: a Starter-only handler stopped by a signal, Start returned nil
C5_Witness ==
    /\ f = {"Starter"}
    /\ trigger = "signals"
    /\ pc["main"] = "returned"
    /\ closeCalls = 1
    /\ stopCalls = 0
    /\ result = Nil

\* C6: for a handler that is no Stopper, whatever the trigger, no Stop hook is
\* called, shutdown completes, and Start returns the first non-nil of
\* (triggering cause, transport close error).
C6_NoStopperShutdown ==
    /\ [](~Implements(f, "Stopper") => stopCalls = 0)
    /\ [](~Implements(f, "Stopper") /\ ReturnedAfterShutdown =>
            result = IF Cause # Nil THEN Cause ELSE runtimeErr)
    /\ (~Implements(f, "Stopper") /\ Stopping ~> pc["main"] = "returned")

\* C6 witness: without a Stopper, Start returned the cause although the close
\* failed as well
C6_Witness ==
    /\ ~Implements(f, "Stopper")
    /\ ReturnedAfterShutdown
    /\ Cause # Nil
    /\ runtimeErr # Nil
    /\ result = Cause
    /\ stopCalls = 0

\* no error came from a hook or from the transport close
NoHookOrCloseError == startErr = Nil /\ instanceErr = Nil /\ runtimeErr = Nil

\* C7 (as stated): after a context cancel while Serving, with no hook error
\* and no close error, Start returns nil.
C7_CancelReturnsNil ==
    (ReturnedAfterShutdown /\ cancelAt = "serving" /\ NoHookOrCloseError)
    => result = Nil

\* C7 (amended): after a context cancel while Serving, given that the
\* transport close and the Stop hook return, the Stop hook (when implemented)
\* is eventually invoked and Start eventually returns; with no hook error, no
\* transport serve error and no close error it returns nil.
C7_CancelUnblocks ==
    /\ (cancelAt = "serving" ~> pc["main"] = "returned")
    /\ (cancelAt = "serving" /\ Implements(f, "Stopper") ~> stopCalls = 1)
    /\ [](  /\ ReturnedAfterShutdown
            /\ cancelAt = "serving"
            /\ NoHookOrCloseError
            /\ serveErr = Nil
          => result = Nil)

\* C7 witness: canceled while Serving, the Stop hook ran and Start returned nil
C7_Witness ==
    /\ cancelAt = "serving"
    /\ trigger = "ctx"
    /\ stopCalls = 1
    /\ pc["main"] = "returned"
    /\ result = Nil

\* C8: however many stop triggers occur, the transport close is called once
\* and the Stop hook at most once in a run of Start.
C8_ShutdownOnce ==
    /\ closeCalls <= 1
    /\ stopCalls <= 1
    /\ (trigger # "none" /\ pc["main"] \notin {"shutdown"} => closeCalls = 1)
    /\ (trigger = "none" => closeCalls = 0 /\ stopCalls = 0)

\* C8 witness: a signal, a context cancel and a Start hook error all occurred
\* and the shutdown ran once
C8_Witness ==
    /\ pc["main"] = "returned"
    /\ sigCount = MaxSignals
    /\ ctxDone
    /\ startErr # Nil
    /\ Blocked # {}
    /\ closeCalls = 1
    /\ stopCalls = 1

\* C9: once Start has consumed the first value or taken the context-cancel
\* case, no writer is left blocked on the stop channel (nothing receives
\* from it any more, so a blocked writer stays blocked for ever).
C9_NoWriterBlocked == trigger # "none" => Blocked = {}

\* errors produced by the Start hook, the serve loop, the Stop hook and the
\* transport close
Produced == {startErr, serveErr, instanceErr, runtimeErr} \ {Nil}

\* C10: every such error that is not the one Start returned has been logged
\* when Start returns.
C10_LosersLogged ==
    pc["main"] = "returned" =>
        \A e \in Produced : e = result \/ e \in logged

\* C11: a Stop hook that never returns does not keep Start from returning:
\* once InstanceStopTimeout has elapsed, Start returns.
C11_StopTimeoutBounds == stopExpired ~> pc["main"] = "returned"

\* C12: when in-flight requests never finish, the graceful close of the HTTP
\* server is given up at ServerShutdownTimeout, shutdown goes on to the Stop
\* hook, and the close's timeout error is what Start returns whenever the
\* cause and the Stop error are both nil.
C12_CloseAbandoned ==
    /\ (binding \in HttpBindings /\ pc["main"] = "closing") ~> pc["main"] # "closing"
    /\ (binding \in HttpBindings /\ pc["main"] = "closing" /\ Implements(f, "Stopper"))
           ~> stopCalls = 1
    /\ [][ (binding \in HttpBindings /\ pc["main"] = "closing"
             /\ pc'["main"] # "closing" /\ inFlight > 0)
           => closeExpired /\ runtimeErr' = DeadlineExceeded ]_vars
    /\ [](ReturnedAfterShutdown /\ runtimeErr = DeadlineExceeded
           /\ Cause = Nil /\ instanceErr = Nil
           => result = DeadlineExceeded)

C12_Witness ==
    /\ binding = "http"
    /\ pc["main"] = "returned"
    /\ inFlight > 0
    /\ stopCalls = 1
    /\ result = DeadlineExceeded

\* the Start hook has been spawned and has not returned
HookPending == pc["starter"] \in {"spawned", "running"}

\* C13: a Start hook that blocks forever does not hold the transport back:
\* Start goes on to Serving without waiting for it, and a later context
\* cancel or SIGINT/SIGTERM still shuts the service down and Start returns.
C13_StartHookNotAwaited ==
    /\ (pc["main"] = "instanceStarted" /\ HookPending)
           ~> (pc["main"] = "select" /\ pc["serve"] = "running" /\ HookPending)
    /\ (Serving /\ HookPending /\ ctxDone) ~> ReturnedAfterShutdown
    /\ (Serving /\ HookPending /\ pc["signals"] = "waiting" /\ sigs # <<>>
           /\ Head(sigs) \in {"SIGINT", "SIGTERM"}) ~> ReturnedAfterShutdown

C13_Witness ==
    /\ pc["starter"] = "running"
    /\ trigger = "signals"
    /\ ReturnedAfterShutdown

\* C14: in the HTTP Service that opens its listener inside handleRequests, a
\* bind failure resolves the stop channel, shutdown runs and Start returns
\* the bind error; Start does not stay blocked.
C14_BindFailureReturned ==
    (binding = "httpenv" /\ serveErr = "ErrListen")
        ~> (ReturnedAfterShutdown /\ result = "ErrListen")

\* C15: Start builds the Config on every call: with a malformed line in the
\* static file the transport never begins serving, whatever the handler
\* implements.
C15_MalformedConfigAborts ==
    readCfg(cfgFile).err # Nil => pc["serve"] = "none"

\* C16: a key in both the static file and the environment maps to the
\* environment's value; a key only in the file keeps the file's value; a key
\* only in the environment keeps the environment's value.
C16_EnvOverFile ==
    (pc["main"] = "cfgBuilt" /\ err = Nil) =>
        LET file == readCfg(cfgFile).cfg
        IN  /\ DOMAIN cfg = DOMAIN file \cup DOMAIN environ
            /\ \A k \in DOMAIN environ : cfg[k] = environ[k]
            /\ \A k \in DOMAIN file \ DOMAIN environ : cfg[k] = file[k]

C16_Witness ==
    /\ pc["main"] = "cfgBuilt"
    /\ err = Nil
    /\ LET file == readCfg(cfgFile).cfg
       IN  /\ \E k \in DOMAIN file \cap DOMAIN environ : file[k] # environ[k]
           /\ DOMAIN file \ DOMAIN environ # {}
           /\ DOMAIN environ \ DOMAIN file # {}

\* the twelve CloudEvent signatures and the two raw signatures the bindings
\* document as supported
DocumentedCE ==
    { [has |-> TRUE, ctx |-> c, arg |-> "none", ret |-> r] :
          c \in BOOLEAN, r \in {"none", "err"} }
    \cup { [has |-> TRUE, ctx |-> c, arg |-> "event", ret |-> r] :
          c \in BOOLEAN, r \in {"none", "err", "evt", "evterr"} }

DocumentedRaw ==
    { [has |-> TRUE, ctx |-> c, arg |-> "message", ret |-> "err"] : c \in BOOLEAN }

\* C17: in the CloudEvents binding, New of a handler whose Handle has none
\* of the twelve shapes, or that has no Handle, fails at construction; the
\* service is never built with a receiver that does nothing.
C17_UnmatchedFailsNew ==
    (binding = "cloudevents" /\ Signature(handler) \notin DocumentedCE) =>
        /\ pc["main"] \in {"new", "panicked"}
        /\ consumed = 0
        /\ handleCalls = 0

C17_Witness ==
    /\ binding = "cloudevents"
    /\ handler.kind = "instance"
    /\ handler.has
    /\ handler.arg = "other"
    /\ pc["main"] = "panicked"
    /\ resolved = "panic"

\* C18: in the Kafka binding a handler with none of the raw or CloudEvent
\* shapes makes construction or Start fail: the service never consumes a
\* message for it.
C18_KafkaRejectsUnmatched ==
    (binding = "kafka" /\ Signature(handler) \notin DocumentedCE \cup DocumentedRaw)
        => consumed = 0

\* C19: in the Kafka binding an instance with any of the twelve documented
\* CloudEvent shapes has its Handle invoked exactly once per consumed message.
C19_DocumentedShapesInvoked ==
    (binding = "kafka" /\ handler.kind = "instance"
       /\ Signature(handler) \in DocumentedCE)
        => handleCalls = consumed

\* C20: in the Kafka binding a DefaultHandler wrapping a plain function of a
\* supported signature has that function invoked once per consumed message.
C20_DefaultHandlerInvoked ==
    (binding = "kafka" /\ handler.kind = "defaultFunc"
       /\ Signature(handler) \in DocumentedCE \cup DocumentedRaw)
        => handleCalls = consumed

\* C21: in the Kafka binding, once the Stopper hook has started, Handle is
\* neither invoked nor still running for any message, a message read before
\* the reader was closed included.
C21_NoHandleAfterStop ==
    (binding = "kafka" /\ stopCalls > 0) => pc["serve"] # "handling"

\* the latest probe went to an HTTP Service whose handler lacks the role
ProbedWithoutRole ==
    /\ binding \in HttpBindings
    /\ lastProbe.path \in ProbePaths
    /\ ~Implements(f, ProbeRole(lastProbe.path))

\* C22: for a handler without the ReadinessReporter (LivenessReporter) role,
\* every readiness (liveness) probe answers success with body READY (ALIVE)
\* and calls no handler method, in every state in which requests are accepted.
C22_AbsentRoleHealthy ==
    ProbedWithoutRole =>
        /\ lastProbe.status = StatusOK
        /\ lastProbe.body = IF lastProbe.path = "readiness" THEN << "READY" >>
                            ELSE << "ALIVE" >>
        /\ ~lastProbe.called
        /\ hookCalls[lastProbe.path] = 0

C22_Witness ==
    /\ ProbedWithoutRole
    /\ lastProbe.path = "readiness"
    /\ probes["readiness"] = MaxProbes
    /\ probes["liveness"] > 0
    /\ pc["main"] = "shutdown"

\* strings.Contains on bodies taken word by word
Contains(body, words) ==
    \E i \in 1..(Len(body) - Len(words) + 1) :
        SubSeq(body, i, i + Len(words) - 1) = words

\* C23: when the Ready hook returns (false, nil) the readiness probe answers
\* 503 with a body containing "not yet available", and the liveness probe of
\* a handler without the Alive role answers success.
C23_NotYetAvailable ==
    binding \in HttpBindings =>
        /\ (lastProbe.path = "readiness" /\ lastProbe.called /\ ~lastProbe.panic
               /\ ~lastProbe.val /\ lastProbe.err = Nil)
             => /\ lastProbe.status = StatusServiceUnavailable
                /\ Contains(lastProbe.body, << "not", "yet", "available" >>)
        /\ (lastProbe.path = "liveness" /\ ~Implements(f, "LivenessReporter"))
             => lastProbe.status = StatusOK

Success == 200..299

\* C24: for a handler with the probe role each probe invokes the hook once;
\* an error gives a non-2xx status, (false, nil) gives a different non-2xx
\* status, and only (true, nil) gives a 2xx status.
C24_HookDecidesAnswer ==
    binding \in HttpBindings =>
        /\ \A path \in ProbePaths :
              Implements(f, ProbeRole(path)) => hookCalls[path] = probes[path]
        /\ (lastProbe.called /\ ~lastProbe.panic) =>
              (lastProbe.status \in Success <=> (lastProbe.val /\ lastProbe.err = Nil))
        /\ \A path \in ProbePaths, o1, o2 \in HookOutcomes :
              (~o1.panic /\ o1.err # Nil /\ ~o2.panic /\ o2.err = Nil /\ ~o2.val)
                 => ProbeAnswer(binding, path, TRUE, o1).status
                       # ProbeAnswer(binding, path, TRUE, o2).status

C24_Witness ==
    /\ binding \in HttpBindings
    /\ lastProbe.path = "liveness"
    /\ lastProbe.called
    /\ lastProbe.err # Nil
    /\ lastProbe.status = StatusInternalServerError
    /\ hookCalls["liveness"] = MaxProbes
    /\ hookCalls["readiness"] > 0

\* C25: a Ready or Alive hook that panics during a probe is caught at the
\* probe boundary: the caller gets a 5xx response and the service keeps
\* serving.
C25_PanicCaught ==
    lastProbe.panic =>
        /\ lastProbe.status \in 500..599
        /\ pc["main"] # "crashed"

\* C26: in the Kafka binding a handler implementing Ready (Alive) has the
\* hook invoked on each readiness (liveness) probe.
C26_KafkaProbesInvokeHooks ==
    binding = "kafka" =>
        \A path \in ProbePaths :
            Implements(f, ProbeRole(path)) => hookCalls[path] = probes[path]

\* C27: only SIGINT and SIGTERM resolve the stop channel, and with nil;
\* any other signal, SIGURG included, sends nothing and leaves the service
\* as it is.
C27_OnlyIntTermStop ==
    /\ [](trigger = "signals" => err = Nil)
    /\ [][ (pc["signals"] = "waiting" /\ sigs # <<>> /\ sigs' = Tail(sigs)
             /\ Head(sigs) \notin {"SIGINT", "SIGTERM"})
           => (pc' = pc /\ trigger' = trigger /\ err' = err) ]_vars
    /\ [][ (pc["signals"] = "waiting"
             /\ (pc'["signals"] = "blocked" \/ (trigger = "none" /\ trigger' = "signals")))
           => (sigs # <<>> /\ Head(sigs) \in {"SIGINT", "SIGTERM"}) ]_vars

C27_Witness ==
    /\ sigCount = MaxSignals
    /\ sigs = <<>>
    /\ pc["signals"] = "waiting"
    /\ pc["main"] = "parked"
    /\ trigger = "none"

\* C28: in the CloudEvents Service, once the server serves, it serves on the
\* listener Start bound (the one Addr() reports), and a health request sent
\* to Addr() is accepted and answered.
C28_AddrIsServed ==
    (binding = "cloudevents" /\ pc["serve"] = "running") =>
        /\ servedAddr = listenerAddr
        /\ lastProbe.path \in ProbePaths => lastProbe.status # 0

\* a line of nothing but spaces
Blank(line) == TrimSpace(line) = <<>>

\* a line with an "=" in it
WellFormed(line) == Len(SplitN2(line)) = 2

\* C29: a static file whose lines are each blank or a well-formed key=value
\* entry builds without error and yields exactly the well-formed entries
\* (under the environment), while a file with a non-blank line lacking "="
\* fails the build.
C29_BlankLinesTolerated ==
    (pc["main"] = "cfgBuilt" /\ cfgFile # NoFile) =>
        /\ (\A i \in 1..Len(cfgFile) : Blank(cfgFile[i]) \/ WellFormed(cfgFile[i]))
              => /\ err = Nil
                 /\ cfg = overlayEnv(Environ(environ),
                              readLines(SelectSeq(cfgFile, WellFormed), EmptyMap).cfg)
        /\ (\E i \in 1..Len(cfgFile) : ~Blank(cfgFile[i]) /\ ~WellFormed(cfgFile[i]))
              => err # Nil

\* C30: for a Starter, an entry KEY="value" of ./cfg whose key is not set in
\* the environment reaches the Start hook as cfg[KEY] = value, spaces and
\* double quotes removed, in every Service.
C30_StaticEntryReachesHook ==
    (cfgFile = StaticFile /\ startCalls > 0) =>
        /\ << "C" >> \in DOMAIN hookCfg /\ hookCfg[<< "C" >>] = << "v" >>
        /\ << "D" >> \in DOMAIN hookCfg /\ hookCfg[<< "D" >>] = << "w" >>

\* the shape tested first and the shape tested last, as the resolver is
\* described: context and event in, event and error out ; nothing in or out
MostSpecific == Iface("handlerCtxEvtEvtErr", TRUE, "event", "evterr")
LeastSpecific == Iface("handler", FALSE, "none", "none")

\* the case list a CloudEvents-type handler is resolved against, and the
\* method set the type switch looks at
ResolverCases == IF binding = "cloudevents" THEN ceInterfaces ELSE kafkaCEInterfaces
ResolverSubject == IF binding = "cloudevents" THEN MethodOfF(handler) ELSE Target(handler)

\* a shape of the case list has been bound
ShapeBound == \E i \in 1..Len(ResolverCases) : ResolverCases[i].name = receiver

\* the bound shape is case i, its signature is the handler's, and no earlier
\* case has that signature
BoundIsFirstMatch ==
    \E i \in 1..Len(ResolverCases) :
        /\ ResolverCases[i].name = receiver
        /\ ResolverSubject.has
        /\ ResolverCases[i].ctx = ResolverSubject.ctx
        /\ ResolverCases[i].arg = ResolverSubject.arg
        /\ ResolverCases[i].ret = ResolverSubject.ret
        /\ \A j \in 1..(i - 1) :
              ~(/\ ResolverCases[j].ctx = ResolverSubject.ctx
                /\ ResolverCases[j].arg = ResolverSubject.arg
                /\ ResolverCases[j].ret = ResolverSubject.ret)

C32_ExitStatus ==
    exitCode # NotExited =>
        /\ (exitCode # 0) <=> (result # Nil)
        /\ (/\ trigger \in {"signals", "ctx"}
            /\ startErr = Nil
            /\ instanceErr = Nil
            /\ runtimeErr = Nil) => (result = Nil /\ exitCode = 0)

\* the process has exited with status 0 after a shutdown a signal triggered
C32_Witness ==
    /\ exitCode = 0
    /\ trigger = "signals"
    /\ closeCalls > 0
    /\ startErr = Nil /\ instanceErr = Nil /\ runtimeErr = Nil

\* the value of an environment variable, empty when it is not set
EnvValue(name) == IF << name >> \in DOMAIN environ THEN environ[<< name >>] ELSE <<>>

\* C33: listenAddress returns LISTEN_ADDRESS whenever that is non-empty,
\* whatever ADDRESS and PORT are; otherwise, when ADDRESS or PORT is non-empty,
\* ADDRESS:PORT with 127.0.0.1 and 8080 in place of an empty one; otherwise
\* 127.0.0.1:8080.
C33_ListenAddress ==
    pc["main"] = "addressed" =>
        /\ EnvValue("LISTEN_ADDRESS") # <<>> => addr = EnvValue("LISTEN_ADDRESS")
        /\ (/\ EnvValue("LISTEN_ADDRESS") = <<>>
            /\ (EnvValue("ADDRESS") # <<>> \/ EnvValue("PORT") # <<>>)) =>
              addr = (IF EnvValue("ADDRESS") = <<>> THEN << "127.0.0.1" >>
                      ELSE EnvValue("ADDRESS"))
                     \o << ":" >>
                     \o (IF EnvValue("PORT") = <<>> THEN << "8080" >>
                         ELSE EnvValue("PORT"))
        /\ (/\ EnvValue("LISTEN_ADDRESS") = <<>>
            /\ EnvValue("ADDRESS") = <<>>
            /\ EnvValue("PORT") = <<>>) => addr = << "127.0.0.1", ":", "8080" >>

\* LISTEN_ADDRESS was returned although ADDRESS and PORT are set as well
C33_Witness ==
    /\ pc["main"] = "addressed"
    /\ EnvValue("LISTEN_ADDRESS") = << ":", "9090" >>
    /\ EnvValue("ADDRESS") = << "0.0.0.0" >>
    /\ EnvValue("PORT") = << "0" >>
    /\ addr = << ":", "9090" >>

C36_ClaimSequential ==
    cgPc \in {"select", "handling", "returned"} =>
        /\ delivered \o claimMessages = ClaimOf(Len(delivered) + Len(claimMessages))
        /\ Len(results) = Len(delivered) - (IF cgPc = "handling" THEN 1 ELSE 0)
        /\ cgPc = "handling" => (current = delivered[Len(delivered)] /\ current \notin marked)
        /\ \A i \in 1..Len(results) : (delivered[i] \in marked) <=> (results[i] = Nil)
        /\ \A i, j \in 1..Len(delivered) : delivered[i] = delivered[j] => i = j
        /\ cgPc = "returned" => (sessionDone \/ (claimClosed /\ claimMessages = <<>>))

\* a claim of two messages has been worked off: the first failed and is not
\* marked, the second succeeded and is marked, and ConsumeClaim has returned
C36_Witness ==
    /\ cgPc = "returned"
    /\ delivered = << 1, 2 >>
    /\ results = << "ErrHandle", Nil >>
    /\ marked = {2}

\* C35: in the consume loop a handler error on one message does not stop
\* the service: the error is logged and nothing has been sent on the stop
\* channel.
C35_HandlerErrorLogged ==
    \A i \in 1..Len(results) :
        results[i] # Nil =>
            /\ results[i] \in logged
            /\ trigger = "none"

\* C37: when Start returns, shutdown has finished: the transport that Start
\* opened has been closed, the close has returned, and the Stop hook of a
\* Stopper has been called and has returned.
C37_ReturnedAfterShutdown ==
    (pc["main"] = "returned" /\ transport # "none") =>
        /\ closeCalls > 0
        /\ transport = "closed"
        /\ Implements(f, "Stopper") => stopCalls > 0

\* C38: for a handler that is both Starter and Stopper, once the Stop hook
\* has been invoked the Start hook has begun and has returned.
C38_StopAfterStartReturned ==
    (Implements(f, "Starter") /\ Implements(f, "Stopper") /\ stopCalls > 0) =>
        pc["starter"] \notin {"none", "spawned", "running"}

\* C39: Setup can be run at the beginning of every session: whatever the
\* number of Setup calls, each of them has returned nil, and the ready
\* channel has been closed by the first of them.
C39_SetupRepeatable ==
    /\ setupPanics = 0
    /\ cgPc # "panicked"
    /\ setupCalls > 0 => ready = "closed"

\* C40: in the Kafka binding, once shutdown has closed the reader the consume
\* loop terminates: the read that fails on the closed reader ends the loop,
\* and no further read is made, also when the context is never canceled.
C40_ConsumeEndsAfterClose ==
    (binding = "kafka" /\ closedReads > 0) =>
        /\ pc["serve"] \in {"blocked", "done"}
        /\ closedReads = 1

====
